---------------------------- MODULE Spec2Model ----------------------------
(***************************************************************************)
(* A model of VulkanHppGenerator.cpp: the registry reader, the validator,  *)
(* the dependency-ordered emitter of structs and handles, the overload     *)
(* selector appendCommand, and the size-then-fill wrappers that the        *)
(* generator writes into the header.                                       *)
(*                                                                         *)
(* The source guards many expectations with assert() and tests NDEBUG      *)
(* itself (#if !defined( NDEBUG )), so both builds are modelled: NDEBUG is *)
(* chosen in Init.  Without NDEBUG a failed assert aborts the generator;   *)
(* with NDEBUG the statement after the assert is executed.                 *)
(*                                                                         *)
(* Sequences are 1-based here where the source is 0-based.                 *)
(***************************************************************************)
EXTENDS Integers, Sequences, FiniteSets, TLC

(***************************************************************************)
(* Bounds of the model.                                                    *)
(***************************************************************************)
MaxParams == 3   \* parameters of a command built for the overload selector
MaxCount  == 2   \* element count the wrapped command may report
MaxCalls  == 4   \* calls of the wrapped command in one wrapper run
MaxDoc    == 4   \* modelled elements of one registry document

VARIABLES
  NDEBUG,          \* the build: TRUE when assert() is compiled out
  \* ---- overload selector (appendCommand on one command) ----
  selParams,       \* commandData.params of the command under construction
  selReturnType,   \* commandData.returnType
  selCodes,        \* commandData.successCodes
  selPc,           \* "build" | "selected"
  selOutcome,      \* what appendCommand did with the command
  selSkipped,      \* a call of determineSkippedParams: arguments and result
  \* ---- emitted size-then-fill wrapper ----
  wTemplate,       \* which function template the wrapper was written from
  wCodes,          \* successCodes of the wrapped command
  wPc,             \* position in the wrapper body
  wCounter,        \* the local counter variable
  wSize,           \* size() of the vector to return
  wResult,         \* the local result variable
  wWritten,        \* elements written by the last call of the command
  wCalls,          \* the calls of the command issued so far, in order
  \* ---- reader, validator, emitter ----
  pc,              \* phase of the generator run
  doc,             \* the registry elements read so far, in document order
  m_types, m_structures, m_handles, m_commands, m_extensions,
  m_extendedStructs,
  m_listedTypes, m_listingTypes,
  stack,           \* the active appendStruct / appendHandle calls
  toVisit,         \* names the running appendStructs / appendHandles loop
                   \* has not reached yet
  emitted,         \* struct, union and handle declarations, in output order
  classCommands,   \* handle -> commands written into its class
  logged,          \* commands reported as "Never encountered a function"
  \* ---- one enum (EnumData) ----
  eValues,         \* EnumData::values, in the order they were added
  eAliases,        \* EnumData::aliases: name -> ( aliased name, cpp name )
  eEmitted,        \* the enumerators appendEnum wrote, in output order
  ePc,             \* "read" | "failed" | "emitted"
  \* ---- checkCorrectness on the sType values ----
  cEnum,           \* the values of the enum VkStructureType
  cStructs,        \* struct -> type and values of its member sType
  cPc,             \* "unchecked" | "passed" | "failed" | "aborted"
  \* ---- checkAttributes on one element ----
  aAttributes,     \* the attributes of the element: name -> value
  aWarnings,       \* the attributes a warning was printed for
  aPc,             \* "unchecked" | "returned" | "threw"
  \* ---- main ----
  CLANG_FORMAT,    \* the build: TRUE when CLANG_FORMAT_EXECUTABLE is defined
  mPc,             \* position in main
  mFilename,       \* the file main loads the registry from
  mExit,           \* how the process ended: "0" | "-1" | "abort" | "crash"
  mErrors,         \* the steps of the run that did not succeed
  mFile,           \* the output file: "absent" | "old" | "written" | "formatted"
  \* ---- replaceWithMap on one template ----
  rInput,          \* input, as the sequence of its tokens
  rReplacements,   \* replacements: key -> tokens of the value
  rPos,            \* where the regex iterator goes on searching
  rMatched,        \* matchedReplacements (kept here in every build)
  rResult,         \* result
  rPc,             \* "call" | "returned" | "aborted"
  \* ---- the platforms of the extensions ----
  xExtensions,     \* m_extensions: extension -> platform
  xTypes,          \* m_types: type -> the extensions that require it
  xCommands,       \* m_commands: command -> the extensions that require it
  xProtected,      \* entity -> the platform its protection was written for
  xPc              \* "read" | "failed" | "emit" | "aborted"

selVars  == <<selParams, selReturnType, selCodes, selPc, selOutcome, selSkipped>>
wVars    == <<wTemplate, wCodes, wPc, wCounter, wSize, wResult, wWritten,
              wCalls>>
regVars  == <<m_types, m_structures, m_handles, m_commands, m_extensions,
              m_extendedStructs>>
emitVars == <<m_listedTypes, m_listingTypes, stack, toVisit, emitted,
              classCommands, logged>>
genVars  == <<pc, doc, regVars, emitVars>>
enumVars == <<eValues, eAliases, eEmitted, ePc>>
chkVars  == <<cEnum, cStructs, cPc>>
attrVars == <<aAttributes, aWarnings, aPc>>
mainVars == <<CLANG_FORMAT, mPc, mFilename, mExit, mErrors, mFile>>
substVars == <<rInput, rReplacements, rPos, rMatched, rResult, rPc>>
platVars == <<xExtensions, xTypes, xCommands, xProtected, xPc>>
moreVars == <<enumVars, chkVars, attrVars, mainVars, substVars, platVars>>
vars     == <<NDEBUG, selVars, wVars, genVars, moreVars>>

(***************************************************************************)
(* Small helpers.                                                          *)
(***************************************************************************)
Range(s) == { s[i] : i \in DOMAIN s }

Min(S) == CHOOSE x \in S : \A y \in S : x <= y

\* the keys of a std::map<size_t, size_t> in iteration order
RECURSIVE SortedSeq(_)
SortedSeq(S) == IF S = {} THEN <<>>
                ELSE <<Min(S)>> \o SortedSeq(S \ {Min(S)})


(***************************************************************************)
(* Names.  C++ compares strings; here every name the model uses is listed  *)
(* once, in the order std::map and std::set iterate them (operator< of     *)
(* std::string: "" first, then byte order).                                *)
(***************************************************************************)
NameOrder == << "", "VkA", "VkB", "VkC", "VkDev", "VkE", "VkL", "VkM", "VkResult", "uint32_t",
                "vkCount", "vkGetB", "vkGetB2", "vkMix", "vkOdd", "void",
                "win32", "xlib" >>

Rank(n) == CHOOSE i \in DOMAIN NameOrder : NameOrder[i] = n

\* the last name of the set in map order
LastName(S) == CHOOSE n \in S : \A o \in S : Rank(o) <= Rank(n)

\* the first name of a non-empty set in map order (std::map::begin)
FirstName(S) == CHOOSE n \in S : \A o \in S : Rank(n) <= Rank(o)

\* beginsWith( type, STRUCT_PREFIX )
HasStructPrefix(type) ==
  type \in { "VkA", "VkB", "VkC", "VkDev", "VkE", "VkL", "VkM", "VkResult", "VkInfo",
             "VkProps", "VkChain", "VkDevice" }

\* beginsWith( name, COMMAND_PREFIX "Get" )
BeginsWithGet(name) == name \in { "vkGetB", "vkGetB2", "vkGet" }

specialPointerTypes == { "Display", "IDirectFB", "wl_display", "xcb_connection_t" }

INVALID_INDEX == 0   \* (size_t)~0 in the source; no parameter has index 0 here

(***************************************************************************)
(* TypeInfo and ParamData.  len holds the parts of the len attribute as    *)
(* tokenize( len, "->" ) yields them: <<>> for no len, <<"count">> for a   *)
(* parameter name, <<"pInfo", "n">> for a struct-member path.              *)
(***************************************************************************)
TypeInfo(prefix, type, postfix) ==
  [prefix |-> prefix, type |-> type, postfix |-> postfix]

Param(name, prefix, type, postfix, len) ==
  [name |-> name, type |-> TypeInfo(prefix, type, postfix), len |-> len]

isValue(t)           == t.postfix = ""
isConstPointer(t)    == t.prefix = "const" /\ t.postfix = "*"
isNonConstPointer(t) == t.prefix # "const" /\ t.postfix = "*"

\* isLenByStructMember( name, param ), the one-parameter overload.  Its asserts
\* hold for the parameters used here: the struct exists and has the member.
isLenByStructMember(len, param) == Len(len) = 2 /\ len[1] = param.name

\* determineVectorParamIndicesNew: vector index -> index of the first earlier
\* parameter that the len names, directly or as the struct of a member path
LenIndexNone(params, i) == i
LenIndex(params, i) ==
  LET hits == { j \in 1..(i-1) :
                  \/ params[i].len = << params[j].name >>
                  \/ isLenByStructMember(params[i].len, params[j]) }
  IN IF hits = {} THEN i ELSE Min(hits)

determineVectorParamIndicesNew(params) ==
  LET vec == { i \in DOMAIN params :
                 params[i].len # <<>> /\ LenIndex(params, i) < i }
  IN [ i \in vec |-> LenIndex(params, i) ]

determineNonConstPointerParamIndices(params) ==
  SortedSeq({ i \in DOMAIN params :
                /\ isNonConstPointer(params[i].type)
                /\ params[i].type.type \notin specialPointerTypes })

determineConstPointerParamIndices(params) ==
  SortedSeq({ i \in DOMAIN params :
                \/ isConstPointer(params[i].type)
                \/ /\ isNonConstPointer(params[i].type)
                   /\ params[i].type.type \in specialPointerTypes })

\* isHandleType: a handle of the registry or the alias of one
isHandleType(handles, type) ==
  /\ HasStructPrefix(type)
  /\ \/ type \in DOMAIN handles
     \/ \E h \in DOMAIN handles : handles[h].alias = type

\* isStructureChainAnchor: a struct (or an alias of one) that some struct extends
isStructureChainAnchor(structures, extended, type) ==
  /\ HasStructPrefix(type)
  /\ \E s \in DOMAIN structures :
       /\ s = type \/ type \in structures[s].aliases
       /\ s \in extended

(***************************************************************************)
(* The overload selector.  A command is                                    *)
(*   [params, returnType, successCodes, handle, aliasData, extensions];    *)
(* reg is the registry the selector consults, with the fields m_handles,   *)
(* m_structures and m_extendedStructs.                                     *)
(***************************************************************************)
Command(params, returnType, successCodes) ==
  [params |-> params, returnType |-> returnType, successCodes |-> successCodes,
   handle |-> "", aliasData |-> {}, extensions |-> {}]

\* vectorParamIndices.begin() and std::next( vectorParamIndices.begin() )
VecFirst(vpi)  == Min(DOMAIN vpi)
VecSecond(vpi) == Min(DOMAIN vpi \ {VecFirst(vpi)})

\* appendCommandStandardAndEnhanced: TRUE when commandEnhanced stays empty, and
\* the function throws "Never encountered a function like ..."
EnhancedStaysEmpty(cmd, vpi, ncp) ==
  CASE Len(ncp) = 0 ->
         IF cmd.returnType = "void" THEN FALSE
         ELSE IF cmd.returnType = "VkResult"
           THEN CASE Cardinality(DOMAIN vpi) \in {0, 1} -> FALSE
                  [] Cardinality(DOMAIN vpi) = 2 ->
                       ~ ( /\ vpi[VecFirst(vpi)] # INVALID_INDEX
                           /\ vpi[VecFirst(vpi)] = vpi[VecSecond(vpi)]
                           /\ isValue(cmd.params[vpi[VecFirst(vpi)]].type) )
                  [] OTHER -> TRUE
         ELSE DOMAIN vpi # {}
    [] Len(ncp) = 1 -> FALSE
    [] OTHER -> TRUE

\* "if ( commandEnhanced.empty() ) throw std::runtime_error( ... )"
appendCommandStandardAndEnhancedThrows(cmd, vpi, ncp) ==
  EnhancedStaysEmpty(cmd, vpi, ncp)

\* case 0 of the switch in appendCommand
SelectNoReturn(cmd, vpi) ==
  LET cpp == determineConstPointerParamIndices(cmd.params)
  IN IF /\ DOMAIN vpi = {}
        /\ \A k \in DOMAIN cpp : cmd.params[cpp[k]].type.type = "void"
       THEN IF cmd.returnType = "VkResult"
              THEN "appendCommandStandardOrEnhanced"
              ELSE "appendCommandStandard"
       ELSE "appendCommandStandardAndEnhanced"

\* case 1 of the switch in appendCommand
SelectOneReturn(name, cmd, vpi, r, reg) ==
  LET type == cmd.params[r].type.type
  IN IF isHandleType(reg.m_handles, type)
       THEN IF r \notin DOMAIN vpi
              THEN IF cmd.returnType = "VkResult" THEN "appendCommandUnique"
                   ELSE IF cmd.returnType = "void" /\ BeginsWithGet(name)
                     THEN "appendCommandStandardAndEnhanced"
                     ELSE ""
              ELSE IF isValue(cmd.params[vpi[r]].type)
                     THEN IF /\ Cardinality(DOMAIN vpi) = 2
                             /\ vpi[VecFirst(vpi)] = vpi[VecSecond(vpi)]
                            THEN "appendCommandVectorSingularUnique"
                            ELSE ""
                     ELSE IF /\ isLenByStructMember(cmd.params[r].len,
                                                    cmd.params[vpi[r]])
                             /\ Cardinality(DOMAIN vpi) = 1
                            THEN "appendCommandVectorUnique"
                            ELSE ""
     ELSE IF isStructureChainAnchor(reg.m_structures, reg.m_extendedStructs, type)
       THEN IF r \notin DOMAIN vpi THEN "appendCommandChained" ELSE ""
     ELSE IF r \notin DOMAIN vpi
            THEN IF cmd.returnType \in {"VkResult", "void"}
                   THEN "appendCommandStandardAndEnhanced"
                   ELSE ""
            ELSE IF type = "void" /\ isValue(cmd.params[vpi[r]].type)
                   THEN "appendCommandSingular"
                   ELSE ""

\* case 2 of the switch in appendCommand
SelectTwoReturnsNone(cmd, vpi, ncp, reg) == ""
SelectTwoReturns(cmd, vpi, ncp, reg) ==
  LET t1 == cmd.params[ncp[1]].type.type
      t2 == cmd.params[ncp[2]].type.type
      anchor(t) == isStructureChainAnchor(reg.m_structures, reg.m_extendedStructs, t)
  IN IF isHandleType(reg.m_handles, t1) \/ anchor(t1) THEN ""
     ELSE IF anchor(t2)
       THEN IF cmd.returnType \in {"VkResult", "void"}
              THEN "appendCommandVectorChained" ELSE ""
     ELSE CASE Cardinality(DOMAIN vpi) = 1 ->
                 IF /\ vpi[VecFirst(vpi)] = ncp[1]
                    /\ VecFirst(vpi) = ncp[2]
                    /\ cmd.returnType \in {"VkResult", "void"}
                   THEN "appendCommandVector" ELSE ""
            [] Cardinality(DOMAIN vpi) = 2 ->
                 IF /\ ncp[1] \in DOMAIN vpi
                    /\ ncp[2] \notin DOMAIN vpi
                    /\ cmd.returnType = "VkResult"
                   THEN "appendCommandStandardEnhancedDeprecatedAllocator"
                   ELSE ""
            [] OTHER -> ""

\* case 3 of the switch in appendCommand
SelectThreeReturns(cmd, vpi, ncp) ==
  IF /\ Cardinality(DOMAIN vpi) = 2
     /\ vpi[VecFirst(vpi)] = ncp[1]
     /\ VecFirst(vpi) = ncp[2]
     /\ VecSecond(vpi) = ncp[3]
     /\ vpi[VecFirst(vpi)] # INVALID_INDEX
     /\ vpi[VecFirst(vpi)] = vpi[VecSecond(vpi)]
     /\ isNonConstPointer(cmd.params[VecFirst(vpi)].type)
     /\ isNonConstPointer(cmd.params[VecSecond(vpi)].type)
     /\ isNonConstPointer(cmd.params[vpi[VecFirst(vpi)]].type)
    THEN "appendCommandVectorDeprecated"
    ELSE ""

\* The emitter appendCommand hands the command to, "" when no branch matches.
SelectedEmitter(name, cmd, reg) ==
  LET vpi == determineVectorParamIndicesNew(cmd.params)
      ncp == determineNonConstPointerParamIndices(cmd.params)
  IN CASE Len(ncp) = 0 -> SelectNoReturn(cmd, vpi)
       [] Len(ncp) = 1 -> SelectOneReturn(name, cmd, vpi, ncp[1], reg)
       [] Len(ncp) = 2 -> SelectTwoReturns(cmd, vpi, ncp, reg)
       [] Len(ncp) = 3 -> SelectThreeReturns(cmd, vpi, ncp)
       [] OTHER -> ""

\* appendCommand: which emitter ran, whether text was appended, whether the run
\* was left by an exception, whether only the message was printed.
appendCommand(name, cmd, reg) ==
  LET e     == SelectedEmitter(name, cmd, reg)
      vpi   == determineVectorParamIndicesNew(cmd.params)
      ncp   == determineNonConstPointerParamIndices(cmd.params)
      threw == /\ e = "appendCommandStandardAndEnhanced"
               /\ appendCommandStandardAndEnhancedThrows(cmd, vpi, ncp)
  IN [emitter  |-> e,
      threw    |-> threw,
      appended |-> e # "" /\ ~threw,
      printed  |-> e = ""]

(***************************************************************************)
(* The selector on its own: a command is put together parameter by         *)
(* parameter from ParamPool and then handed to appendCommand.              *)
(***************************************************************************)
\* The registry the commands below are selected against: one handle, three
\* structs, of which VkChain is extended by another struct.
SelRegistry ==
  [m_handles         |-> [h \in {"", "VkDevice"} |-> [alias |-> "", commands |-> {}]],
   m_structures      |-> [t \in {"VkInfo", "VkProps", "VkChain"} |->
                            [members |-> << [name |-> "n",
                                             type |-> TypeInfo("", "uint32_t", "")] >>,
                             aliases |-> {}, structExtends |-> {}, subStruct |-> ""]],
   m_extendedStructs |-> {"VkChain"}]

ParamPool ==
  { Param("device",    "",      "VkDevice", "",  <<>>),
    Param("count",     "",      "uint32_t", "",  <<>>),
    Param("pCount",    "",      "uint32_t", "*", <<>>),
    Param("pValue",    "",      "uint32_t", "*", <<>>),
    Param("pInfo",     "const", "VkInfo",   "*", <<>>),
    Param("pIn",       "const", "VkInfo",   "*", <<"count">>),
    Param("pName",     "const", "char",     "*", <<"null-terminated">>),
    Param("pData",     "",      "void",     "*", <<"count">>),
    Param("pHandle",   "",      "VkDevice", "*", <<>>),
    Param("pHandles",  "",      "VkDevice", "*", <<"count">>),
    Param("pHandlesM", "",      "VkDevice", "*", <<"pInfo", "n">>),
    Param("pProps",    "",      "VkProps",  "*", <<"pCount">>),
    Param("pProps2",   "",      "VkProps",  "*", <<"pCount">>),
    Param("pChain",    "",      "VkChain",  "*", <<>>),
    Param("pChains",   "",      "VkChain",  "*", <<"pCount">>),
    Param("dpy",       "",      "Display",  "*", <<>>) }

\* return type and success codes as checkCorrectness accepts them together
ReturnKinds ==
  { <<"VkResult", <<"VK_SUCCESS">> >>,
    <<"VkResult", <<"VK_SUCCESS", "VK_INCOMPLETE">> >>,
    <<"void", <<>> >>,
    <<"uint32_t", <<>> >> }

SelNames == { "vkGet", "vkDo" }

NoOutcome == [emitter |-> "", threw |-> FALSE, appended |-> FALSE, printed |-> FALSE]

NoSkipped == [vectorParamIndices |-> <<>>, returnParamIndices |-> {},
              singular |-> FALSE, skippedParams |-> {}]

SelIdle ==
  /\ selParams = <<>>
  /\ selReturnType = ""
  /\ selCodes = <<>>
  /\ selPc = "build"
  /\ selOutcome = NoOutcome
  /\ selSkipped = NoSkipped

\* readCommandParam: one more <param> of the command
AddParam(p) ==
  /\ selPc = "build"
  /\ Len(selParams) < MaxParams
  /\ p \notin Range(selParams)
  /\ selParams' = Append(selParams, p)
  /\ UNCHANGED <<selReturnType, selCodes, selPc, selOutcome, selSkipped>>

\* The command as readCommand stores it: the handle is the type of the first
\* parameter when that is a handle of the registry, "" otherwise.
SelCommand(params, returnType, successCodes) ==
  [Command(params, returnType, successCodes) EXCEPT
     !.handle = IF params[1].type.type \in DOMAIN SelRegistry.m_handles
                  THEN params[1].type.type ELSE ""]

\* The asserts of appendCommandVector and of the constructor it calls:
\* constructCommandResultEnumerate for VkResult, constructCommandVoidEnumerate
\* otherwise (error codes are not modelled: a void command has none).
appendCommandVectorAsserts(cmd) ==
  /\ cmd.returnType \in {"VkResult", "void"}
  /\ IF cmd.returnType = "VkResult"
       THEN cmd.successCodes = <<"VK_SUCCESS", "VK_INCOMPLETE">>
       ELSE cmd.params[1].type.type = cmd.handle /\ cmd.successCodes = <<>>

\* the emitters that assert( commandData.returnType == "VkResult" ) on entry
ResultOnlyEmitters ==
  { "appendCommandSingular", "appendCommandVectorSingularUnique",
    "appendCommandVectorUnique" }

\* the asserts at the entry of the emitter the command is given to (of the
\* emitters named here; the asserts of the others are not modelled)
emitterAsserts(emitter, cmd) ==
  IF emitter = "appendCommandVector" THEN appendCommandVectorAsserts(cmd)
  ELSE IF emitter \in ResultOnlyEmitters THEN cmd.returnType = "VkResult"
  ELSE TRUE

\* appendCommand on the finished command; a failed assert of the emitter
\* ends a debug build of the generator
Select(name, kind) ==
  LET cmd == SelCommand(selParams, kind[1], kind[2])
      out == appendCommand(name, cmd, SelRegistry)
  IN /\ selPc = "build"
     /\ Len(selParams) >= 1
     /\ selReturnType' = kind[1]
     /\ selCodes' = kind[2]
     /\ selOutcome' = out
     /\ selPc' = IF ~NDEBUG /\ ~emitterAsserts(out.emitter, cmd)
                   THEN "aborted" ELSE "selected"
     /\ UNCHANGED <<selParams, selSkipped>>

\* determineSkippedParams; the first parameter has index 1 here
determineSkippedParamsAllLengths(handleType, params, vectorParamIndices, returnParamIndices, singular) ==
  returnParamIndices
    \cup (IF handleType # "" THEN {1} ELSE {})
    \cup { vectorParamIndices[v] : v \in DOMAIN vectorParamIndices }

determineSkippedParams(handleType, params, vectorParamIndices, returnParamIndices, singular) ==
  returnParamIndices
    \cup (IF handleType # "" THEN {1} ELSE {})
    \cup { vectorParamIndices[v] :
             v \in { w \in DOMAIN vectorParamIndices :
                       \/ w \notin returnParamIndices
                       \/ singular /\ isValue(params[vectorParamIndices[w]].type) } }

\* A constructor of an enhanced overload calls determineSkippedParams on the
\* command: with the vector parameters or with none, with no return
\* parameter, one, or all of them, singular only with one return parameter.
DetermineSkippedParams(withVectors, returns, singular) ==
  LET cmd     == SelCommand(selParams, "VkResult", <<"VK_SUCCESS">>)
      vectors == IF withVectors THEN determineVectorParamIndicesNew(selParams)
                                ELSE <<>>
      ncp     == Range(determineNonConstPointerParamIndices(selParams))
  IN /\ selPc = "build"
     /\ Len(selParams) >= 1
     /\ returns \subseteq ncp
     /\ Cardinality(returns) <= 1 \/ returns = ncp
     /\ singular => Cardinality(returns) = 1
     /\ selSkipped' = [vectorParamIndices |-> vectors,
                       returnParamIndices |-> returns,
                       singular           |-> singular,
                       skippedParams      |->
                         determineSkippedParams(cmd.handle, selParams, vectors,
                                                returns, singular)]
     /\ selPc' = "skipped"
     /\ UNCHANGED <<selParams, selReturnType, selCodes, selOutcome>>

(***************************************************************************)
(* The size-then-fill wrappers of the generated header.  The generator     *)
(* writes them from five function templates:                               *)
(*   resultEnumerate        constructCommandResultEnumerate (and its       *)
(*                          TwoVectors and Chained variants, same body)    *)
(*   voidEnumerate          constructCommandVoidEnumerate                  *)
(*   multiSuccessTemplate, singleSuccessTemplate, voidMultiCallTemplate    *)
(*                          appendFunctionBodyEnhancedTwoStep              *)
(* The wrapped command is the environment: it reports a count, or fills at *)
(* most as many elements as the caller offers room for.                    *)
(***************************************************************************)
SuccessIncomplete == <<"VK_SUCCESS", "VK_INCOMPLETE">>

\* appendCommandVector: which enumerate constructor writes commandEnhanced
EnumerateTemplate(returnType) ==
  IF returnType = "VkResult" THEN "resultEnumerate" ELSE "voidEnumerate"

\* appendFunctionBodyEnhancedTwoStep: selectedTemplate
selectedTemplate(returnType, successCodes) ==
  IF returnType = "VkResult"
    THEN IF 1 < Len(successCodes) THEN "multiSuccessTemplate"
                                  ELSE "singleSuccessTemplate"
    ELSE "voidMultiCallTemplate"

\* The template behind one ${...} entry of the emitter's function template.
\* appendCommandVectorDeprecated writes commandEnhanced with
\* constructCommandResultEnumerateTwoVectors and commandEnhancedDeprecated with
\* the two-step body.
WrapperTemplate(emitter, entry, returnType, successCodes) ==
  IF emitter = "appendCommandVector" THEN EnumerateTemplate(returnType)
  ELSE IF entry = "commandEnhanced" THEN "resultEnumerate"
  ELSE selectedTemplate(returnType, successCodes)

\* The asserts passed on the way to that entry.  The entries of the map
\* initializer are evaluated in order, commandEnhanced first.
EmitterAssertsHold(emitter, entry, returnType, successCodes) ==
  IF emitter = "appendCommandVector"
    THEN returnType = "VkResult" => successCodes = SuccessIncomplete
    ELSE returnType = "VkResult" /\ successCodes = SuccessIncomplete

IsResultTemplate(t) ==
  t \in {"resultEnumerate", "multiSuccessTemplate", "singleSuccessTemplate"}

HasLoop(t) == t \in {"resultEnumerate", "multiSuccessTemplate"}

\* "if ( ( result == Result::eSuccess ) && counter )": is call2 issued?
FillAfterQuery(t, result, counter) ==
  IF IsResultTemplate(t) THEN result = "VK_SUCCESS" /\ counter # 0 ELSE TRUE

\* "while ( result == Result::eIncomplete )"
LoopAgainNever(t, result) == FALSE
LoopAgain(t, result) == HasLoop(t) /\ result = "VK_INCOMPLETE"

\* the statements between the loop and the return
TrimmedSize(t, result, counter, size) ==
  CASE t = "resultEnumerate" ->
         IF result = "VK_SUCCESS" /\ counter < size THEN counter ELSE size
    [] t = "multiSuccessTemplate" ->
         IF result = "VK_SUCCESS" THEN counter ELSE size
    [] OTHER -> size

\* what the wrapped command may return; it declares its success codes, and
\* any command returning VkResult may fail
CallResults(t, successCodes) ==
  IF IsResultTemplate(t) THEN Range(successCodes) \cup {"VK_ERROR"} ELSE {"void"}

WIdle ==
  /\ wTemplate = "" /\ wCodes = <<>> /\ wPc = "unwritten"
  /\ wCounter = 0 /\ wSize = 0 /\ wResult = "" /\ wWritten = 0
  /\ wCalls = <<>>

\* one call of the wrapped command as the wrapper issued it: with a null data
\* pointer ("query") or with room for that many elements ("fill"), what it
\* returned and the counter it left behind
Call(kind, room, result, count) ==
  [kind |-> kind, room |-> room, result |-> result, count |-> count]

\* The generator writes one wrapper.  In the build with asserts a command that
\* fails an emitter's assert stops the generator instead.
WEmit(emitter, entry, returnType, successCodes) ==
  /\ wPc = "unwritten"
  /\ IF NDEBUG \/ EmitterAssertsHold(emitter, entry, returnType, successCodes)
       THEN /\ wTemplate' = WrapperTemplate(emitter, entry, returnType, successCodes)
            /\ wPc' = "call1"
       ELSE /\ wTemplate' = ""
            /\ wPc' = "aborted"
  /\ wCodes' = successCodes
  /\ \E garbage \in 0..MaxCount : wCounter' = garbage   \* "uint32_t counter;"
  /\ UNCHANGED <<wSize, wResult, wWritten, wCalls>>

\* call1: the command is called with a null data pointer
WQuery(r, n) ==
  /\ wPc = "call1"
  /\ Len(wCalls) < MaxCalls
  /\ r \in CallResults(wTemplate, wCodes)
  /\ wResult' = r
  /\ wWritten' = 0
  /\ wCounter' = IF r = "VK_ERROR" THEN wCounter ELSE n
  /\ wCalls' = Append(wCalls, Call("query", 0, r, wCounter'))
  /\ wPc' = IF FillAfterQuery(wTemplate, r, wCounter') THEN "call2"
            ELSE IF HasLoop(wTemplate) THEN "loopTest" ELSE "return"
  /\ UNCHANGED <<wTemplate, wCodes, wSize>>

\* resize( counter ) and call2: the command is called with the data pointer and
\* writes min( room, available ) elements
WFill(r, avail) ==
  /\ wPc = "call2"
  /\ Len(wCalls) < MaxCalls
  /\ r \in CallResults(wTemplate, wCodes)
  /\ r = "VK_INCOMPLETE" => avail > wCounter
  /\ r = "VK_SUCCESS" /\ "VK_INCOMPLETE" \in Range(wCodes) => avail <= wCounter
  /\ wSize' = wCounter
  /\ wResult' = r
  /\ wWritten' = IF r = "VK_ERROR" THEN 0
                 ELSE IF avail < wCounter THEN avail ELSE wCounter
  /\ wCounter' = IF r = "VK_ERROR" THEN wCounter ELSE wWritten'
  /\ wCalls' = Append(wCalls, Call("fill", wCounter, r, wCounter'))
  /\ wPc' = IF HasLoop(wTemplate) THEN "loopTest" ELSE "return"
  /\ UNCHANGED <<wTemplate, wCodes>>

\* the condition of the do-while loop
WLoop ==
  /\ wPc = "loopTest"
  /\ wPc' = IF LoopAgain(wTemplate, wResult) THEN "call1" ELSE "trim"
  /\ UNCHANGED <<wTemplate, wCodes, wCounter, wSize, wResult, wWritten, wCalls>>

\* the trimming statement after the loop
WTrim ==
  /\ wPc = "trim"
  /\ wSize' = TrimmedSize(wTemplate, wResult, wCounter, wSize)
  /\ wPc' = "return"
  /\ UNCHANGED <<wTemplate, wCodes, wCounter, wResult, wWritten, wCalls>>

\* "return createResultValue( result, vector, name )", or "return vector"
WReturn ==
  /\ wPc = "return"
  /\ wPc' = IF wResult \in {"VK_SUCCESS", "void"} THEN "returned" ELSE "threw"
  /\ UNCHANGED <<wTemplate, wCodes, wCounter, wSize, wResult, wWritten, wCalls>>

(***************************************************************************)
(* The registry.  std::map and std::set members of the generator are       *)
(* functions and sets; a registry value is the record of them, with the    *)
(* message of the first failed check() in error ("" while none failed).    *)
(* check() throws, the constructor is left, and main returns -1.           *)
(***************************************************************************)
EmptyMap == [x \in {} |-> x]

Put(m, k, v) == [x \in DOMAIN m \cup {k} |-> IF x = k THEN v ELSE m[x]]

Erase(m, k) == [x \in DOMAIN m \ {k} |-> m[x]]

Fail(r, message) == [r EXCEPT !.error = message]

\* The types every registry declares before the ones modelled here: the
\* platform types and the enum VkResult.
BaseTypes == [t \in {"uint32_t", "void", "VkResult"} |->
                IF t = "VkResult" THEN "Enum" ELSE "Requires"]

HandleData(alias, commands) == [alias |-> alias, commands |-> commands]

\* the generator after the first statement of its constructor
EmptyRegistry ==
  [m_types           |-> BaseTypes,
   m_structures      |-> EmptyMap,
   m_handles         |-> Put(EmptyMap, "", HandleData("", {})),
   m_commands        |-> EmptyMap,
   m_extensions      |-> {},
   m_extendedStructs |-> {},
   error             |-> ""]

\* readHandle, the branch without alias
readHandle(r, e) ==
  IF e.name \in DOMAIN r.m_handles
    THEN Fail(r, "handle already specified")
  ELSE IF e.name \in DOMAIN r.m_types
    THEN Fail(r, "handle already specified as a type")
  ELSE [r EXCEPT !.m_handles = Put(@, e.name, HandleData("", {})),
                 !.m_types   = Put(@, e.name, "Handle")]

\* determineSubStruct: the first struct in map order whose members are a
\* proper prefix of the members of the struct just read
IsSubStruct(structures, s, name, members) ==
  /\ s # name
  /\ Len(structures[s].members) < Len(members)
  /\ structures[s].members[1].name # "sType"
  /\ \A i \in 1..Len(structures[s].members) : structures[s].members[i] = members[i]

\* the structures without members that pass the first two conditions of
\* determineSubStruct: the third one reads their members[0]
MemberlessCandidates(structures, name, members) ==
  { s \in DOMAIN structures :
      s # name /\ structures[s].members = <<>> /\ members # <<>> }

\* the loop of determineSubStruct gets to a structure without members before
\* it returns: it reads member 0 of an empty vector, which is undefined
ReadsMemberOfMemberless(structures, name, members) ==
  LET memberless == MemberlessCandidates(structures, name, members)
  IN /\ memberless # {}
     /\ \A o \in DOMAIN structures :
          Rank(o) < Rank(FirstName(memberless))
            => ~IsSubStruct(structures, o, name, members)

\* ub is what the read of a missing member 0 gave: a name that is "sType" or
\* some other name; with another name the loop over no members leaves equal
\* true and the structure without members is returned
determineSubStruct(structures, name, members, ub) ==
  LET subs == { s \in DOMAIN structures :
                  IF s \in MemberlessCandidates(structures, name, members)
                    THEN ub = "other"
                    ELSE IsSubStruct(structures, s, name, members) }
  IN IF subs = {} THEN "" ELSE FirstName(subs)

UndefinedRead == "undefined: member 0 of a structure without members"

ignoreLens == { "null-terminated", "2*VK_UUID_SIZE" }

\* readStructMember on the i-th <member>: its name is new, and the first part
\* of its len, if it has one, is the name of a member read before it, which
\* then is a plain value, or one of the lens that name no member.  A record
\* without the field len is a member without that attribute.
readStructMemberAny(members, i) == TRUE
readStructMember(members, i) ==
  LET before == 1..(i - 1)
      m      == members[i]
  IN /\ \A j \in before : members[j].name # m.name
     /\ "len" \in DOMAIN m =>
          /\ Len(m.len) \in {1, 2}
          /\ \/ \E j \in before : members[j].name = m.len[1]
             \/ m.len[1] \in ignoreLens
          /\ \A j \in before : members[j].name = m.len[1] =>
               members[j].type.prefix = "" /\ members[j].type.postfix = ""
          /\ Len(m.len) = 2 => m.len[2] \in {"1", "null-terminated"}

\* readStruct, the branch without alias
\* readStruct gets to determineSubStruct: the name is new and every member was
\* read
ReachesDetermineSubStruct(r, e) ==
  /\ e.name \notin DOMAIN r.m_structures
  /\ \A i \in DOMAIN e.members : readStructMember(e.members, i)

\* readStruct, given what an undefined read in determineSubStruct gave
readStructWith(r, e, ub) ==
  IF e.name \in DOMAIN r.m_structures
    THEN Fail(r, "struct already specfied")
  ELSE IF \E i \in DOMAIN e.members : ~readStructMember(e.members, i)
    THEN Fail(r, "member attribute <len> holds unknown value")
  ELSE IF e.name \in DOMAIN r.m_types
    THEN Fail(r, "struct already specified as a type")
  ELSE [r EXCEPT
          !.m_structures = Put(@, e.name,
             [members       |-> e.members,
              structExtends |-> e.structExtends,
              aliases       |-> {},
              subStruct     |-> determineSubStruct(r.m_structures, e.name,
                                                   e.members, ub)]),
          !.m_extendedStructs = @ \cup e.structExtends,
          !.m_types = Put(@, e.name, "Struct")]

\* readStruct as a function of the registry and the element: it has no
\* defined result when determineSubStruct reads a missing member
readStruct(r, e) ==
  IF /\ ReachesDetermineSubStruct(r, e)
     /\ ReadsMemberOfMemberless(r.m_structures, e.name, e.members)
    THEN Fail(r, UndefinedRead)
    ELSE readStructWith(r, e, "sType")

\* readCommand: the handle the command is associated to is looked up when the
\* command is read
HandleAlwaysDefault(handles, params) == ""
HandleOfCommand(handles, params) ==
  IF params[1].type.type \in DOMAIN handles THEN params[1].type.type ELSE ""

\* substr( 2, 7 ) == "Destroy" or substr( 2, 4 ) == "Free"
IsDeleterName(name) == name \in { "vkDestroyAll" }

\* registerDeleter: "assert" when the switch over params.size() ends in its
\* default branch.  The deleter bookkeeping of the handles (childrenHandles,
\* deleteCommand, deletePool) is not modelled.
registerDeleter(e) ==
  IF IsDeleterName(e.name) /\ Len(e.params) \notin {2, 3, 4} THEN "assert" ELSE "ok"

readCommand(r, e) ==
  LET h == HandleOfCommand(r.m_handles, e.params)
  IN IF e.params = <<>> THEN Fail(r, "command with no params")
     ELSE IF e.name \in DOMAIN r.m_commands
       THEN Fail(r, "already encountered command")
     ELSE [r EXCEPT
             !.m_commands = Put(@, e.name,
                [params |-> e.params, returnType |-> e.returnType,
                 successCodes |-> e.successCodes, handle |-> h,
                 aliasData |-> {}, extensions |-> {}]),
             !.m_handles[h].commands = @ \cup {e.name}]

\* readCommandAlias
readCommandAlias(r, e) ==
  IF e.alias \notin DOMAIN r.m_commands THEN Fail(r, "missing command")
  ELSE IF e.name \in r.m_commands[e.alias].aliasData
    THEN Fail(r, "command already listed as alias")
  ELSE [r EXCEPT !.m_commands[e.alias].aliasData = @ \cup {e.name}]

\* readExtensionDisabledCommand: unlink the command from its class and erase
\* it from the command list, when it has been read before
readExtensionDisabledCommandKeeps(r, name) == r
readExtensionDisabledCommandLinked(r, name) ==
  [r EXCEPT !.m_commands = Erase(@, name)]
readExtensionDisabledCommand(r, name) ==
  IF name \in DOMAIN r.m_commands
    THEN LET h == r.m_commands[name].handle
         IN IF h \notin DOMAIN r.m_handles
              THEN Fail(r, "cannot find handle corresponding to command")
              ELSE [r EXCEPT !.m_handles[h].commands = @ \ {name},
                             !.m_commands = Erase(@, name)]
    ELSE r

\* readExtensionDisabledType.  Bitmasks and enums are not modelled, so the
\* only category with a map of its own here is Struct; m_types is not touched.
readExtensionDisabledType(r, name) ==
  IF name \in DOMAIN r.m_types
    THEN IF r.m_types[name] = "Struct"
           THEN IF name \notin DOMAIN r.m_structures
                  THEN Fail(r, "trying to remove unknown struct")
                ELSE IF r.m_structures[name].aliases # {}
                  THEN Fail(r, "trying to remove disabled structure which has aliases")
                ELSE [r EXCEPT !.m_structures = Erase(@, name)]
           ELSE Fail(r, "trying to remove type of unhandled category")
    ELSE r

\* readExtensionRequireCommand
readExtensionRequireCommand(r, name, extension) ==
  IF name \in DOMAIN r.m_commands
    THEN [r EXCEPT !.m_commands[name].extensions = @ \cup {extension}]
  ELSE IF \E c \in DOMAIN r.m_commands : name \in r.m_commands[c].aliasData
    THEN r
  ELSE Fail(r, "extension requires unknown command")

\* readExtensionRequireType
readExtensionRequireType(r, name, extension) ==
  IF name \in DOMAIN r.m_types THEN r
  ELSE Fail(r, "failed to find required type")

\* readExtensionDisabledRequire and readExtensionRequire: the children of the
\* <require> element from the i-th on, in document order; the first failed
\* check ends the reading
RECURSIVE readRequire(_, _, _, _)
readRequire(r, e, disabled, i) ==
  IF r.error # "" \/ i > Len(e.children) THEN r
  ELSE LET child == e.children[i]
           next  == IF disabled
                      THEN IF child.tag = "command"
                             THEN readExtensionDisabledCommand(r, child.name)
                             ELSE readExtensionDisabledType(r, child.name)
                      ELSE IF child.tag = "command"
                             THEN readExtensionRequireCommand(r, child.name, e.name)
                             ELSE readExtensionRequireType(r, child.name, e.name)
       IN readRequire(next, e, disabled, i + 1)

\* readExtension: a disabled extension kicks out what has been read before it;
\* any other extension is registered and its requirements are recorded
readExtension(r, e) ==
  IF e.supported = "disabled"
    THEN readRequire(r, e, TRUE, 1)
  ELSE IF e.name \in r.m_extensions
    THEN Fail(r, "already encountered extension")
  ELSE readRequire([r EXCEPT !.m_extensions = @ \cup {e.name}], e, FALSE, 1)

\* readRegistry dispatches on the element
readElement(r, e) ==
  CASE e.kind = "handle"       -> readHandle(r, e)
    [] e.kind = "struct"       -> readStruct(r, e)
    [] e.kind = "command"      -> readCommand(r, e)
    [] e.kind = "commandAlias" -> readCommandAlias(r, e)
    [] e.kind = "extension"    -> readExtension(r, e)

\* checkCorrectness, the command checks and the structure checks; every name
\* is looked up in m_types
checkCorrectness(r) ==
  IF \E c \in DOMAIN r.m_commands :
       r.m_commands[c].returnType = "VkResult" /\ r.m_commands[c].successCodes = <<>>
    THEN Fail(r, "missing successcodes on command returning VkResult")
  ELSE IF \E c \in DOMAIN r.m_commands : \E i \in DOMAIN r.m_commands[c].params :
            r.m_commands[c].params[i].type.type \notin DOMAIN r.m_types
    THEN Fail(r, "comand uses parameter of unknown type")
  ELSE IF \E c \in DOMAIN r.m_commands : r.m_commands[c].returnType \notin DOMAIN r.m_types
    THEN Fail(r, "command uses unknown return type")
  ELSE IF \E t \in DOMAIN r.m_structures :
            \E x \in r.m_structures[t].structExtends : x \notin DOMAIN r.m_types
    THEN Fail(r, "struct extends unknown")
  ELSE IF \E t \in DOMAIN r.m_structures : \E i \in DOMAIN r.m_structures[t].members :
            r.m_structures[t].members[i].type.type \notin DOMAIN r.m_types
    THEN Fail(r, "struct member uses unknown type")
  ELSE r

\* the constructor on a whole document: readRegistry, then checkCorrectness
RECURSIVE readRegistry(_, _, _)
readRegistry(r, d, i) ==
  IF r.error # "" \/ i > Len(d) THEN r
  ELSE readRegistry(readElement(r, d[i]), d, i + 1)

Ingest(d) ==
  LET r == readRegistry(EmptyRegistry, d, 1)
  IN IF r.error # "" THEN r ELSE checkCorrectness(r)

(***************************************************************************)
(* The registry documents of the model: up to MaxDoc of the elements       *)
(* below, each at most once, in any order in which <types>, <commands> and *)
(* <extensions> are one element each (checkElements of readRegistry).      *)
(***************************************************************************)
Member(name, prefix, type, postfix) ==
  [name |-> name, type |-> TypeInfo(prefix, type, postfix)]

\* a <member> with the attribute len
LenMember(name, prefix, type, postfix, len) ==
  [name |-> name, type |-> TypeInfo(prefix, type, postfix), len |-> len]

HandleElement(name) == [kind |-> "handle", section |-> "types", name |-> name]

StructElement(name, mems, structExtends) ==
  [kind |-> "struct", section |-> "types", name |-> name,
   members |-> mems, structExtends |-> structExtends]

CommandElement(name, params, returnType, successCodes) ==
  [kind |-> "command", section |-> "commands", name |-> name,
   params |-> params, returnType |-> returnType, successCodes |-> successCodes]

CommandAliasElement(name, alias) ==
  [kind |-> "commandAlias", section |-> "commands", name |-> name, alias |-> alias]

ExtensionElement(name, supported, children) ==
  [kind |-> "extension", section |-> "extensions", name |-> name,
   supported |-> supported, children |-> children]

Child(tag, name) == [tag |-> tag, name |-> name]

Handles == { HandleElement("VkDev") }

Structs ==
  { \* a struct with a pointer to itself and a member of another struct type
    StructElement("VkA", << Member("pNext", "", "VkA", "*"),
                            Member("b", "", "VkB", "") >>, {}),
    StructElement("VkB", << Member("x", "", "uint32_t", "") >>, {}),
    \* another VkB, which refers back to VkA
    StructElement("VkB", << Member("a", "const", "VkA", "*") >>, {}),
    StructElement("VkC", << Member("dev", "", "VkDev", "") >>, {"VkB"}),
    \* a counted array: the count before the array, after it, and an array
    \* that names itself
    StructElement("VkL", << Member("n", "", "uint32_t", ""),
                            LenMember("p", "const", "uint32_t", "*", <<"n">>) >>, {}),
    StructElement("VkL", << LenMember("p", "const", "uint32_t", "*", <<"n">>),
                            Member("n", "", "uint32_t", "") >>, {}),
    StructElement("VkM", << LenMember("p", "const", "uint32_t", "*", <<"p">>) >>, {}),
    \* a struct declared without any member
    StructElement("VkE", <<>>, {}) }

DeviceParam == Param("device", "", "VkDev", "", <<>>)

Commands ==
  { CommandElement("vkGetB", << DeviceParam, Param("pB", "", "VkB", "*", <<>>) >>,
                   "void", <<>>),
    \* two returned values that are no vectors: no shape of appendCommand
    CommandElement("vkOdd", << DeviceParam, Param("pA", "", "uint32_t", "*", <<>>),
                               Param("pB", "", "uint32_t", "*", <<>>) >>,
                   "VkResult", <<"VK_SUCCESS">>),
    CommandElement("vkMix", << DeviceParam, Param("pC", "const", "VkC", "*", <<>>) >>,
                   "VkResult", <<"VK_SUCCESS">>),
    \* a vector parameter and a return type that is neither void nor VkResult
    CommandElement("vkCount", << DeviceParam, Param("count", "", "uint32_t", "", <<>>),
                                 Param("pBs", "const", "VkB", "*", <<"count">>) >>,
                   "uint32_t", <<>>),
    \* commands without any <param>
    CommandElement("vkNone", <<>>, "void", <<>>),
    CommandElement("vkDestroyAll", <<>>, "void", <<>>) }

CommandAliases == { CommandAliasElement("vkGetB2", "vkGetB") }

Extensions ==
  { ExtensionElement("VK_enabled", "enabled", << Child("command", "vkGetB") >>),
    ExtensionElement("VK_disabled", "disabled",
                     << Child("type", "VkB"), Child("command", "vkGetB") >>) }

Sections(d) == { d[i].section : i \in DOMAIN d }

\* d, a document whose sections are contiguous, stays one when e follows
CanFollow(d, e) ==
  /\ \A i \in DOMAIN d : d[i] # e
  /\ IF d = <<>> THEN TRUE
     ELSE d[Len(d)].section = e.section \/ e.section \notin Sections(d)

Reg ==
  [m_types |-> m_types, m_structures |-> m_structures, m_handles |-> m_handles,
   m_commands |-> m_commands, m_extensions |-> m_extensions,
   m_extendedStructs |-> m_extendedStructs, error |-> ""]

\* One more element of the document is read.  A failed check() ends the run.
Read(e, r) ==
  /\ pc = "read"
  /\ Len(doc) < MaxDoc
  /\ CanFollow(doc, e)
  /\ doc' = Append(doc, e)
  /\ IF r.error # ""
       THEN /\ pc' = "failed"
            /\ UNCHANGED regVars
       ELSE /\ pc' = "read"
            /\ m_types' = r.m_types
            /\ m_structures' = r.m_structures
            /\ m_handles' = r.m_handles
            /\ m_commands' = r.m_commands
            /\ m_extensions' = r.m_extensions
            /\ m_extendedStructs' = r.m_extendedStructs
  /\ UNCHANGED emitVars

ReadHandle(e)       == Read(e, readHandle(Reg, e))
\* readStruct in a run: the read of a missing member 0 kills the run, or
\* gives some name and the run goes on with it
ReadStruct(e) ==
  IF readStruct(Reg, e).error # UndefinedRead
    THEN Read(e, readStruct(Reg, e))
    ELSE \E ub \in {"crash", "sType", "other"} :
           IF ub = "crash"
             THEN /\ pc = "read"
                  /\ Len(doc) < MaxDoc
                  /\ CanFollow(doc, e)
                  /\ doc' = Append(doc, e)
                  /\ pc' = "readCrashed"
                  /\ UNCHANGED <<regVars, emitVars>>
             ELSE Read(e, readStructWith(Reg, e, ub))
\* readCommand calls registerDeleter before it checks that the command has
\* parameters.  For a vkDestroy... or vkFree... command without parameters
\* registerDeleter runs into "default: assert( false )"; with NDEBUG it goes on
\* to read params[0] of an empty vector, which is undefined: the run dies
\* there, or survives up to the check for parameters of readCommand.
ReadCommand(e) ==
  IF registerDeleter(e) = "ok"
    THEN Read(e, readCommand(Reg, e))
    ELSE /\ pc = "read"
         /\ Len(doc) < MaxDoc
         /\ CanFollow(doc, e)
         /\ doc' = Append(doc, e)
         /\ IF ~NDEBUG THEN pc' = "readAborted"
            ELSE \E ub \in {"crash", "goOn"} :
                   pc' = IF ub = "crash" THEN "readCrashed" ELSE "failed"
         /\ UNCHANGED <<regVars, emitVars>>
ReadCommandAlias(e) == Read(e, readCommandAlias(Reg, e))
ReadExtension(e)    == Read(e, readExtension(Reg, e))

\* The end of the document: checkCorrectness, and on success main goes on to
\* appendStructs.
CheckCorrectness ==
  /\ pc = "read"
  /\ IF checkCorrectness(Reg).error # ""
       THEN pc' = "failed" /\ UNCHANGED toVisit
       ELSE pc' = "structs" /\ toVisit' = DOMAIN m_structures
  /\ UNCHANGED <<doc, regVars, m_listedTypes, m_listingTypes, stack, emitted,
                 classCommands, logged>>

(***************************************************************************)
(* The emitter.  main calls appendStructs and then appendHandles; both walk *)
(* their map in name order and call appendStruct / appendHandle, which     *)
(* call appendType on what they depend on, which calls them again.  The    *)
(* recursion is kept as a stack of frames [kind, name, todo]: todo are the *)
(* calls the frame still has to make before it appends its declaration.    *)
(***************************************************************************)
Item(tag, name) == [tag |-> tag, name |-> name]

Frame(kind, name, todo) == [kind |-> kind, name |-> name, todo |-> todo]

\* std::set<std::string> in iteration order
RECURSIVE NameSeq(_)
NameSeq(S) == IF S = {} THEN <<>>
              ELSE <<FirstName(S)>> \o NameSeq(S \ {FirstName(S)})

RECURSIVE Concat(_)
Concat(ss) == IF ss = <<>> THEN <<>> ELSE Head(ss) \o Concat(Tail(ss))

\* appendStruct: appendType for every member whose type is not the struct
\* itself, then the subStruct
StructTodoNone(name, data) == <<>>
StructTodoAll(name, data) ==
  [i \in DOMAIN data.members |-> Item("type", data.members[i].type.type)]
StructTodo(name, data) ==
  LET types == [i \in DOMAIN data.members |-> data.members[i].type.type]
      other == SelectSeq(types, LAMBDA t : t # name)
  IN [i \in DOMAIN other |-> Item("type", other[i])]
     \o (IF data.subStruct # "" THEN << Item("sub", data.subStruct) >> ELSE <<>>)

\* appendHandle: appendType for every parameter of every command of the
\* handle whose type is not the handle itself
HandleTodo(name, data, commands) ==
  LET cmds  == NameSeq(data.commands)
      types == Concat([k \in DOMAIN cmds |->
                         [i \in DOMAIN commands[cmds[k]].params |->
                            commands[cmds[k]].params[i].type.type]])
      other == SelectSeq(types, LAMBDA t : t # name)
  IN [i \in DOMAIN other |-> Item("type", other[i])]

\* m_structures.find( typeName ), else the struct that has the alias; "" when
\* the search ends at m_structures.end()
FindStruct(structures, typeName) ==
  IF typeName \in DOMAIN structures THEN typeName
  ELSE LET owners == { t \in DOMAIN structures : typeName \in structures[t].aliases }
       IN IF owners = {} THEN "none" ELSE FirstName(owners)

\* m_handles.find( typeName ), else the handle that has the alias
FindHandle(handles, typeName) ==
  IF typeName \in DOMAIN handles THEN typeName
  ELSE LET owners == { h \in DOMAIN handles : handles[h].alias = typeName }
       IN IF owners = {} THEN "none" ELSE FirstName(owners)

\* the rest of the stack once the call on top of it has been made
Popped == [stack EXCEPT ![Len(stack)].todo = Tail(@)]

\* appendStruct or appendHandle is entered.  Entering a type that is being
\* listed fails the first assert; without the assert the call recurses into
\* itself until the stack of the process is exhausted.
Enter(base, kind, name) ==
  IF name \in m_listingTypes
    THEN /\ pc' = IF NDEBUG THEN "crashed" ELSE "aborted"
         /\ UNCHANGED <<m_listingTypes, stack>>
    ELSE /\ m_listingTypes' = m_listingTypes \cup {name}
         /\ stack' = Append(base,
              Frame(kind, name,
                    IF kind = "struct"
                      THEN StructTodo(name, m_structures[name])
                      ELSE HandleTodo(name, m_handles[name], m_commands)))
         /\ UNCHANGED pc

\* One turn of the loop of appendStructs.
AppendStructs ==
  /\ pc = "structs" /\ stack = <<>>
  /\ IF toVisit = {}
       THEN /\ pc' = "handles"
            /\ toVisit' = DOMAIN m_handles
            /\ UNCHANGED <<m_listingTypes, stack>>
       ELSE /\ toVisit' = toVisit \ {FirstName(toVisit)}
            /\ IF FirstName(toVisit) \in m_listedTypes
                 THEN UNCHANGED <<pc, m_listingTypes, stack>>
                 ELSE Enter(stack, "struct", FirstName(toVisit))
  /\ UNCHANGED <<doc, regVars, m_listedTypes, emitted, classCommands, logged>>

\* One turn of the loop of appendHandles.
AppendHandles ==
  /\ pc = "handles" /\ stack = <<>>
  /\ IF toVisit = {}
       THEN /\ pc' = "done"
            /\ UNCHANGED <<toVisit, m_listingTypes, stack>>
       ELSE /\ toVisit' = toVisit \ {FirstName(toVisit)}
            /\ IF FirstName(toVisit) \in m_listedTypes
                 THEN UNCHANGED <<pc, m_listingTypes, stack>>
                 ELSE Enter(stack, "handle", FirstName(toVisit))
  /\ UNCHANGED <<doc, regVars, m_listedTypes, emitted, classCommands, logged>>

\* A lookup ended at end() of its map: the assert fails, and without the
\* assert the end iterator is dereferenced.  That is undefined; the outcomes
\* kept here are a crash and going on as if the type had been listed.
LookupFailed(ub) ==
  IF ~NDEBUG THEN pc' = "aborted" /\ UNCHANGED <<stack, m_listingTypes>>
  ELSE IF ub = "crash" THEN pc' = "crashed" /\ UNCHANGED <<stack, m_listingTypes>>
  ELSE stack' = Popped /\ UNCHANGED <<pc, m_listingTypes>>

\* The next call of the innermost appendStruct / appendHandle: appendType on a
\* member or parameter type, or the look at the subStruct.
AppendType(ub) ==
  /\ pc \in {"structs", "handles"}
  /\ stack # <<>>
  /\ stack[Len(stack)].todo # <<>>
  /\ LET item     == Head(stack[Len(stack)].todo)
         typeName == item.name
     IN IF item.tag = "sub"
          THEN /\ UNCHANGED m_listedTypes
               /\ IF typeName \in DOMAIN m_structures /\ typeName \notin m_listedTypes
                    THEN Enter(Popped, "struct", typeName)
                    ELSE stack' = Popped /\ UNCHANGED <<pc, m_listingTypes>>
        ELSE IF typeName \in m_listedTypes
          THEN stack' = Popped /\ UNCHANGED <<pc, m_listingTypes, m_listedTypes>>
        ELSE IF typeName \notin DOMAIN m_types
          THEN LookupFailed(ub) /\ UNCHANGED m_listedTypes
        ELSE IF m_types[typeName] \in {"Struct", "Union", "Handle"}
          THEN LET found == IF m_types[typeName] = "Handle"
                              THEN FindHandle(m_handles, typeName)
                              ELSE FindStruct(m_structures, typeName)
                   kind  == IF m_types[typeName] = "Handle" THEN "handle" ELSE "struct"
               IN /\ UNCHANGED m_listedTypes
                  /\ IF found = "none" THEN LookupFailed(ub)
                     ELSE IF found # typeName /\ found \in m_listedTypes
                       THEN stack' = Popped /\ UNCHANGED <<pc, m_listingTypes>>
                     ELSE Enter(Popped, kind, found)
        ELSE /\ m_listedTypes' = m_listedTypes \cup {typeName}
             /\ stack' = Popped
             /\ UNCHANGED <<pc, m_listingTypes>>
  /\ UNCHANGED <<doc, regVars, toVisit, emitted, classCommands, logged>>

\* appendStruct after its last call: the declaration is appended and the
\* struct moves from the listing to the listed types
\* appendStruct's end, had it dropped the structure it has emitted from the
\* registry
FinishStructForgets ==
  /\ pc \in {"structs", "handles"}
  /\ stack # <<>>
  /\ stack[Len(stack)].kind = "struct"
  /\ stack[Len(stack)].todo = <<>>
  /\ LET name == stack[Len(stack)].name
     IN /\ emitted' = Append(emitted, name)
        /\ m_listingTypes' = m_listingTypes \ {name}
        /\ m_listedTypes' = m_listedTypes \cup {name}
        /\ m_structures' = Erase(m_structures, name)
  /\ stack' = SubSeq(stack, 1, Len(stack) - 1)
  /\ UNCHANGED <<pc, doc, m_types, m_handles, m_commands, m_extensions,
                 m_extendedStructs, toVisit, classCommands, logged>>

FinishStruct ==
  /\ pc \in {"structs", "handles"}
  /\ stack # <<>>
  /\ stack[Len(stack)].kind = "struct"
  /\ stack[Len(stack)].todo = <<>>
  /\ LET name == stack[Len(stack)].name
     IN /\ emitted' = Append(emitted, name)
        /\ m_listingTypes' = m_listingTypes \ {name}
        /\ m_listedTypes' = m_listedTypes \cup {name}
  /\ stack' = SubSeq(stack, 1, Len(stack) - 1)
  /\ UNCHANGED <<pc, doc, regVars, toVisit, classCommands, logged>>

\* what appendCommand does with the commands of a handle, one after the other
CommandOutcome(c) == appendCommand(c, m_commands[c], Reg)

\* appendHandle after its last appendType: appendCommand for every command of
\* the handle, and for the aliases of a command that was appended; then the
\* class is appended (the commands of the handle "" are free functions).  An
\* exception of appendCommand leaves main with -1.
FinishHandle ==
  /\ pc \in {"structs", "handles"}
  /\ stack # <<>>
  /\ stack[Len(stack)].kind = "handle"
  /\ stack[Len(stack)].todo = <<>>
  /\ LET name     == stack[Len(stack)].name
         cmds     == m_handles[name].commands
         appended == { c \in cmds : CommandOutcome(c).appended }
     IN IF \E c \in cmds : CommandOutcome(c).threw
          THEN /\ pc' = "threw"
               /\ UNCHANGED <<stack, emitted, classCommands, logged,
                              m_listingTypes, m_listedTypes>>
          ELSE /\ logged' = logged \cup { c \in cmds : CommandOutcome(c).printed }
               /\ classCommands' =
                    Put(classCommands, name,
                        appended \cup UNION { m_commands[c].aliasData : c \in appended })
               /\ emitted' = IF name = "" THEN emitted ELSE Append(emitted, name)
               /\ m_listingTypes' = m_listingTypes \ {name}
               /\ m_listedTypes' = m_listedTypes \cup {name}
               /\ stack' = SubSeq(stack, 1, Len(stack) - 1)
               /\ UNCHANGED pc
  /\ UNCHANGED <<doc, regVars, toVisit>>

(***************************************************************************)
(* One enum.  A C name is the sequence of its words (VK_COLOR_RED_BIT is    *)
(* <<"VK", "COLOR", "RED", "BIT">>), a cpp name the sequence of the parts   *)
(* createEnumValueName puts together (eRedKHR is <<"e", "Red", "KHR">>).    *)
(* The enum is the bitmask VkColorFlagBits; the registry has the tag KHR.   *)
(***************************************************************************)
MaxEnumerators == 4

m_tags == { "KHR" }

\* toCamelCase on one word
CamelWord(w) ==
  CASE w = "VK" -> "Vk" [] w = "COLOR" -> "Color" [] w = "RED" -> "Red"
    [] w = "BLUE" -> "Blue" [] w = "BIT" -> "Bit" [] w = "KHR" -> "Khr"

toCamelCase(ws) == [i \in DOMAIN ws |-> CamelWord(ws[i])]

beginsWith(ws, prefix) ==
  Len(prefix) <= Len(ws) /\ SubSeq(ws, 1, Len(prefix)) = prefix

endsWith(ws, postfix) ==
  Len(postfix) <= Len(ws)
    /\ SubSeq(ws, Len(ws) - Len(postfix) + 1, Len(ws)) = postfix

stripPrefix(ws, prefix) ==
  IF beginsWith(ws, prefix) THEN SubSeq(ws, Len(prefix) + 1, Len(ws)) ELSE ws

stripPostfix(ws, postfix) ==
  IF endsWith(ws, postfix) THEN SubSeq(ws, 1, Len(ws) - Len(postfix)) ELSE ws

\* getEnumPrefix for the bitmask VkColorFlagBits: the name up to "FlagBits" in
\* upper case; getEnumPostfix: the name ends with no tag
EnumPrefix  == << "VK", "COLOR" >>
EnumPostfix == << >>

\* findTag( m_tags, name, postfix )
findTag(name, postfix) ==
  IF \E t \in m_tags : endsWith(name, <<t>> \o postfix)
    THEN CHOOSE t \in m_tags : endsWith(name, <<t>> \o postfix)
    ELSE ""

\* result.erase( result.find( "Bit" ), 3 ): the first "Bit" goes
EraseFirstBit(ws) ==
  IF \E i \in DOMAIN ws : ws[i] = "Bit"
    THEN LET i == Min({ k \in DOMAIN ws : ws[k] = "Bit" })
         IN SubSeq(ws, 1, i - 1) \o SubSeq(ws, i + 1, Len(ws))
    ELSE ws

createEnumValueName(name, prefix, postfix, bitmask, tag) ==
  LET camel  == <<"e">> \o toCamelCase(stripPostfix(stripPrefix(name, prefix), postfix))
      noBit  == IF bitmask THEN EraseFirstBit(camel) ELSE camel
  IN IF tag # "" /\ noBit[Len(noBit)] = CamelWord(tag)
       THEN SubSeq(noBit, 1, Len(noBit) - 1) \o <<tag>>
       ELSE noBit

\* the cpp name readEnum and readEnumAlias compute for a C name
CppName(name) ==
  createEnumValueName(name, EnumPrefix, EnumPostfix, TRUE, findTag(name, EnumPostfix))

\* the C names of the <enum> elements, in the order of std::string
EnumNames ==
  << << "VK", "COLOR", "BLUE", "BIT" >>,
     << "VK", "COLOR", "RED" >>,
     << "VK", "COLOR", "RED", "BIT" >>,
     << "VK", "COLOR", "RED", "BIT", "KHR" >>,
     << "VK", "COLOR", "RED", "KHR" >> >>

EnumValueData(vulkanValue, vkValue) == [vulkanValue |-> vulkanValue, vkValue |-> vkValue]

EnumIdle ==
  /\ eValues = <<>>
  /\ eAliases = EmptyMap
  /\ eEmitted = <<>>
  /\ ePc = "idle"

EnumRoom == Len(eValues) + Cardinality(DOMAIN eAliases) < MaxEnumerators

\* EnumData::addEnumValue
addEnumValue(valueName) ==
  LET translatedName == CppName(valueName)
      same == { i \in DOMAIN eValues : eValues[i].vkValue = translatedName }
  IN /\ ePc = "read"
     /\ EnumRoom
     /\ IF same = {}
          THEN /\ eValues' = Append(eValues, EnumValueData(valueName, translatedName))
               /\ ePc' = "read"
          ELSE /\ eValues' = eValues
               /\ ePc' = IF eValues[Min(same)].vulkanValue = valueName
                           THEN "read" ELSE "failed"
     /\ UNCHANGED <<eAliases, eEmitted>>

\* the first check of addEnumAlias: the aliased name is a value or an alias
KnownEnumNameAlways(aliasName) == TRUE
KnownEnumName(aliasName) ==
  \/ \E i \in DOMAIN eValues : eValues[i].vulkanValue = aliasName
  \/ aliasName \in DOMAIN eAliases

\* EnumData::addEnumAlias
addEnumAlias(name, aliasName) ==
  LET vkName == CppName(name)
  IN /\ ePc = "read"
     /\ EnumRoom
     /\ IF ~KnownEnumName(aliasName)
          THEN ePc' = "failed" /\ eAliases' = eAliases
        ELSE IF name \in DOMAIN eAliases /\ eAliases[name].first # aliasName
          THEN ePc' = "failed" /\ eAliases' = eAliases
        ELSE /\ ePc' = "read"
             /\ eAliases' =
                  IF \E a \in DOMAIN eAliases : eAliases[a].second = vkName
                    THEN eAliases
                    ELSE Put(eAliases, name, [first |-> aliasName, second |-> vkName])
     /\ UNCHANGED <<eValues, eEmitted>>

\* appendEnum lists an alias only when its cpp name is that of no value
ListsAliasAlways(a) == TRUE
ListsAlias(a) ==
  \A i \in DOMAIN eValues : eValues[i].vkValue # eAliases[a].second

\* the aliases appendEnum lists, from the i-th name of the map on
RECURSIVE ListedAliases(_)
ListedAliases(i) ==
  IF i > Len(EnumNames) THEN <<>>
  ELSE LET a == EnumNames[i]
       IN ( IF a \in DOMAIN eAliases /\ ListsAlias(a)
              THEN << [cpp |-> eAliases[a].second, c |-> a] >>
              ELSE <<>> ) \o ListedAliases(i + 1)

\* appendEnum: the values, then the aliases
appendEnum ==
  /\ ePc = "read"
  /\ eEmitted' = [i \in DOMAIN eValues |->
                    [cpp |-> eValues[i].vkValue, c |-> eValues[i].vulkanValue]]
                  \o ListedAliases(1)
  /\ ePc' = "emitted"
  /\ UNCHANGED <<eValues, eAliases>>

(***************************************************************************)
(* checkCorrectness, the part on the sType values: the structure checks on *)
(* the values attribute of a member and the checks on VkStructureType.      *)
(* A registry here is the set of values of VkStructureType and, per struct, *)
(* the type and the values of its member sType (no values: no such member   *)
(* or none with a values attribute).  VkOther is a second enum of the       *)
(* registry, with the one value VK_OTHER_X.                                 *)
(***************************************************************************)
ReservedSTypes == { "VK_STRUCTURE_TYPE_LOADER_INSTANCE_CREATE_INFO",
                    "VK_STRUCTURE_TYPE_LOADER_DEVICE_CREATE_INFO" }

STypeNames == { "VK_STRUCTURE_TYPE_A", "VK_STRUCTURE_TYPE_B",
                "VK_STRUCTURE_TYPE_LOADER_INSTANCE_CREATE_INFO" }

\* m_enums of the registry under check
ChkEnums(structureTypes) ==
  [ e \in {"VkStructureType", "VkOther"} |->
      IF e = "VkStructureType" THEN structureTypes ELSE {"VK_OTHER_X"} ]

\* value.find_first_not_of( "0123456789" ) == std::string::npos
IsNumber(value) == value \in { "1" }

STypeMember(type, values) == [type |-> type, values |-> values]

STypeMembers ==
  { STypeMember("", {}),
    STypeMember("VkStructureType", {"VK_STRUCTURE_TYPE_A"}),
    STypeMember("VkStructureType", {"VK_STRUCTURE_TYPE_B"}),
    STypeMember("VkStructureType", {"VK_STRUCTURE_TYPE_C"}),
    STypeMember("VkStructureType", {"VK_STRUCTURE_TYPE_LOADER_INSTANCE_CREATE_INFO"}),
    STypeMember("VkOther", {"VK_OTHER_X"}),
    STypeMember("uint32_t", {"1"}) }

ChkStructNames == { "VkS1", "VkS2" }

\* the structure checks on one member with values
MemberValuesOk(enums, m) ==
  IF m.values = {} THEN TRUE
  ELSE IF m.type \in DOMAIN enums THEN m.values \subseteq enums[m.type]
  ELSE IF m.type = "uint32_t" THEN \A v \in m.values : IsNumber(v)
  ELSE FALSE

\* the structs whose sType values go into sTypeValues
STypeUsers(enums, structs) ==
  { t \in DOMAIN structs : structs[t].values # {} /\ structs[t].type \in DOMAIN enums }

\* "passed", "failed" (a check() threw) or "aborted" (the final assert failed)
checkStructureTypes(ndebug, structureTypes, structs) ==
  LET enums       == ChkEnums(structureTypes)
      users       == STypeUsers(enums, structs)
      sTypeValues == UNION { structs[t].values : t \in users }
      leftOver    == sTypeValues \ structureTypes
  IN IF \E t \in DOMAIN structs : ~MemberValuesOk(enums, structs[t])
       THEN "failed"
     ELSE IF \E t, u \in users : t # u /\ structs[t].values \cap structs[u].values # {}
       THEN "failed"     \* "sType value has been used before"
     ELSE IF \E v \in structureTypes \cap ReservedSTypes : v \in sTypeValues
       THEN "failed"     \* "Reserved StructureType enum value is used"
     ELSE IF \E v \in structureTypes \ ReservedSTypes : v \notin sTypeValues
       THEN "failed"     \* "StructureType enum value never used"
     ELSE IF leftOver # {} /\ ~ndebug
       THEN "aborted"    \* assert( sTypeValues.empty() )
     ELSE "passed"

ChkIdle ==
  /\ cEnum = {}
  /\ cStructs = EmptyMap
  /\ cPc = "idle"

CheckStructureTypes ==
  /\ cPc = "unchecked"
  /\ cPc' = checkStructureTypes(NDEBUG, cEnum, cStructs)
  /\ UNCHANGED <<cEnum, cStructs>>

(***************************************************************************)
(* checkAttributes.  An attribute value is the sequence tokenize( value,   *)
(* "," ) yields; required and optional map an attribute name to its set of *)
(* allowed values, the empty set standing for "any value".                 *)
(***************************************************************************)
\* the call checkAttributes is modelled on: two required and two optional
\* attributes, one of each with a set of allowed values
RequiredAttributes ==
  [ a \in {"name", "category"} |-> IF a = "category" THEN {"struct", "union"} ELSE {} ]

OptionalAttributes ==
  [ a \in {"comment", "optional"} |-> IF a = "optional" THEN {"false", "true"} ELSE {} ]

\* the attribute maps of an element: each attribute absent, or with a value
AttributeMaps ==
  LET names  == {"name", "category", "optional", "alias"}
      values == { <<"struct">>, <<"true">>, <<"weird">>, <<"true", "weird">> }
  IN UNION { [present -> values] : present \in SUBSET names }

\* checkAttributes: threw is TRUE when a check() failed; warned holds the
\* attributes warn() printed a message for
checkAttributes(attributes, required, optional) ==
  LET missing == { r \in DOMAIN required : r \notin DOMAIN attributes }
      unexpected ==
        { r \in DOMAIN required \ missing :
            required[r] # {} /\ ~( \E v \in required[r] : attributes[r] = <<v>> ) }
      unknown ==
        { a \in DOMAIN attributes : a \notin DOMAIN required /\ a \notin DOMAIN optional }
      outside ==
        { a \in DOMAIN attributes \cap DOMAIN optional :
            /\ a \notin DOMAIN required
            /\ optional[a] # {}
            /\ \E k \in DOMAIN attributes[a] : attributes[a][k] \notin optional[a] }
  IN IF missing # {} \/ unexpected # {}
       THEN [threw |-> TRUE, warned |-> {}]
       ELSE [threw |-> FALSE, warned |-> unknown \cup outside]

AttrIdle ==
  /\ aAttributes = EmptyMap
  /\ aWarnings = {}
  /\ aPc = "idle"

CheckAttributes ==
  LET out == checkAttributes(aAttributes, RequiredAttributes, OptionalAttributes)
  IN /\ aPc = "unchecked"
     /\ aPc' = IF out.threw THEN "threw" ELSE "returned"
     /\ aWarnings' = out.warned
     /\ UNCHANGED aAttributes

(***************************************************************************)
(* main.  The process ends with the value main returns ("0" when control   *)
(* reaches the end of the try block, "-1" from the early returns and the   *)
(* catch blocks), or is ended by abort() after a failed assert ("abort"),  *)
(* or by the undefined behaviour a compiled-out assert guarded ("crash").  *)
(***************************************************************************)
\* how the constructor of VulkanHppGenerator and the append functions can
\* end: they return, check() or appendCommand throw, or an assert fails
GeneratorOutcomes(ndebug) ==
  {"ok", "threw"} \cup (IF ndebug THEN {"crash"} ELSE {"abort"})

MainIdle ==
  /\ CLANG_FORMAT = FALSE
  /\ mPc = "idle"
  /\ mFilename = ""
  /\ mExit = ""
  /\ mErrors = {}
  /\ mFile = "absent"

\* leave main: the step could not go on
MainExit(code, step, file) ==
  /\ mPc' = "exited"
  /\ mExit' = code
  /\ mErrors' = mErrors \cup {step}
  /\ mFile' = file
  /\ UNCHANGED <<CLANG_FORMAT, mFilename>>

\* go on with the next step of main
MainGoOn(next, errors, file) ==
  /\ mPc' = next
  /\ mErrors' = errors
  /\ mFile' = file
  /\ UNCHANGED <<CLANG_FORMAT, mFilename, mExit>>

\* std::string filename = ( argc == 1 ) ? INPUT_FILENAME : argv[1];
ChooseFile(argc) ==
  /\ mPc = "start"
  /\ mPc' = "load"
  /\ mFilename' = IF argc = 1 THEN "INPUT_FILENAME" ELSE "argv[1]"
  /\ UNCHANGED <<CLANG_FORMAT, mExit, mErrors, mFile>>

\* doc.LoadFile( filename.c_str() )
LoadFile(error) ==
  /\ mPc = "load"
  /\ IF error # "XML_SUCCESS"
       THEN MainExit("-1", "load", mFile)
       ELSE MainGoOn("construct", mErrors, mFile)

\* VulkanHppGenerator generator( doc ): ingestion and validation
Construct(outcome) ==
  /\ mPc = "construct"
  /\ outcome \in GeneratorOutcomes(NDEBUG)
  /\ IF outcome = "ok"
       THEN MainGoOn("append", mErrors, mFile)
       ELSE MainExit(IF outcome = "threw" THEN "-1" ELSE outcome, "construct", mFile)

\* str += ...; generator.appendEnums( str ); ... appendHashStructures( str )
AppendAll(outcome) ==
  /\ mPc = "append"
  /\ outcome \in GeneratorOutcomes(NDEBUG)
  /\ IF outcome = "ok"
       THEN MainGoOn("write", mErrors, mFile)
       ELSE MainExit(IF outcome = "threw" THEN "-1" ELSE outcome, "append", mFile)

\* std::ofstream ofs( OUTPUT_FILENAME ); assert( !ofs.fail() ); ofs << str;
\* ofs.close();  Nothing but the assert looks at the state of the stream.
WriteFile(fail) ==
  /\ mPc = "write"
  /\ IF fail
       THEN IF NDEBUG
              THEN MainGoOn("format", mErrors \cup {"write"}, mFile)
              ELSE MainExit("abort", "write", mFile)
       ELSE MainGoOn("format", mErrors, "written")

\* #if defined( CLANG_FORMAT_EXECUTABLE ): std::system( clang-format -i ... );
\* then the end of the try block, where main returns 0.  clang-format fails
\* on a file that does not exist, and leaves a file it did not reformat.
Format(ret) ==
  /\ mPc = "format"
  /\ CLANG_FORMAT /\ mFile = "absent" => ret # 0
  /\ IF CLANG_FORMAT /\ ret # 0
       THEN MainExit("-1", "format", mFile)
       ELSE /\ mPc' = "exited"
            /\ mExit' = "0"
            /\ mFile' = IF CLANG_FORMAT /\ mFile = "written" THEN "formatted" ELSE mFile
            /\ UNCHANGED <<CLANG_FORMAT, mFilename, mErrors>>

(***************************************************************************)
(* replaceWithMap.  A string is the sequence of its tokens: "$", "{" and   *)
(* "}" stand for themselves, every other token for a run of characters     *)
(* without any of the three.  The regex \$\{([^\}]+)\} matches "$", "{",    *)
(* one or more tokens other than "}", and "}".                             *)
(***************************************************************************)
\* the first match of the regex in input that begins at from or later
Match(input, from) ==
  LET starts == { i \in from..(Len(input) - 3) :
                    /\ input[i] = "$" /\ input[i + 1] = "{" /\ input[i + 2] # "}"
                    /\ \E k \in (i + 3)..Len(input) : input[k] = "}" }
  IN IF starts = {} THEN [found |-> FALSE, first |-> 0, last |-> 0, name |-> ""]
     ELSE LET i == Min(starts)
              j == Min({ k \in (i + 3)..Len(input) : input[k] = "}" })
          IN [found |-> TRUE, first |-> i, last |-> j,
              \* match[1]; a name of several tokens is the key of no map here
              name |-> IF j = i + 3 THEN input[i + 2] ELSE "?"]

\* ${name}, and the text up to the next placeholder
Placeholder(name) == << "$", "{", name, "}", "text" >>

\* the function templates of constructCommandResultEnumerate and of
\* constructCommandResultEnumerateChained, definition and declaration: the
\* placeholders in the order of their first occurrence, the braces of the
\* function body, and one token for the text between them
SubstSites == { "enumerate", "enumerateChained" }

functionTemplate(site, definition) ==
  IF site = "enumerate" /\ definition
    THEN <<"text">> \o Placeholder("allocatorType") \o Placeholder("typenameCheck")
         \o Placeholder("nodiscard") \o Placeholder("vectorElementType")
         \o Placeholder("className") \o Placeholder("classSeparator")
         \o Placeholder("commandName") \o Placeholder("argumentList")
         \o Placeholder("const") \o <<"{", "text">>
         \o Placeholder("vectorName") \o Placeholder("vectorAllocator")
         \o Placeholder("counterType") \o Placeholder("counterName")
         \o Placeholder("vkCommand") \o Placeholder("firstCallArguments")
         \o Placeholder("secondCallArguments") \o Placeholder("counterName")
         \o <<"}">>
  ELSE IF site = "enumerate"
    THEN <<"text">> \o Placeholder("allocatorType") \o Placeholder("vectorElementType")
         \o Placeholder("typenameCheck") \o Placeholder("nodiscard")
         \o Placeholder("commandName") \o Placeholder("argumentList")
         \o Placeholder("const")
  ELSE IF definition
    THEN <<"text">> \o Placeholder("typenameCheck")
         \o <<"{", "nodiscard", "}", "text">>
         \o Placeholder("className") \o Placeholder("classSeparator")
         \o Placeholder("commandName") \o Placeholder("argumentList")
         \o <<"{", "text">>
         \o Placeholder("structureChainAllocator") \o Placeholder("vectorElementType")
         \o Placeholder("vectorName") \o Placeholder("counterType")
         \o Placeholder("counterName") \o Placeholder("vkCommand")
         \o Placeholder("firstCallArguments") \o Placeholder("secondCallArguments")
         \o Placeholder("counterName") \o <<"}">>
  ELSE <<"text">> \o Placeholder("typenameCheck") \o Placeholder("nodiscard")
       \o Placeholder("commandName") \o Placeholder("argumentList")

\* the keys of the map the call site passes along with the template
replacementKeys(site, definition) ==
  IF site = "enumerate" /\ definition
    THEN { "allocatorType", "argumentList", "className", "classSeparator",
           "commandName", "const", "counterName", "counterType",
           "firstCallArguments", "nodiscard", "secondCallArguments",
           "typenameCheck", "vectorAllocator", "vectorElementType", "vectorName",
           "vkCommand" }
  ELSE IF site = "enumerate"
    THEN { "allocatorType", "argumentList", "const", "commandName", "nodiscard",
           "typenameCheck", "vectorElementType" }
  ELSE IF definition
    THEN { "argumentList", "className", "classSeparator", "commandName",
           "counterName", "counterType", "firstCallArguments", "nodiscard",
           "secondCallArguments", "structureChainAllocator", "typenameCheck",
           "vectorElementType", "vectorName", "vkCommand" }
  ELSE { "argumentList", "commandName", "nodiscard", "typenameCheck" }

\* the values: empty without an allocator or without a handle, text otherwise
replacementValue(key, withAllocator, handle) ==
  IF key \in { "typenameCheck", "vectorAllocator", "structureChainAllocator" }
    THEN IF withAllocator THEN <<"text">> ELSE <<>>
  ELSE IF key \in { "className", "classSeparator", "const" }
    THEN IF handle = "" THEN <<>> ELSE <<"text">>
  ELSE <<"text">>

SubstIdle ==
  /\ rInput = <<>>
  /\ rReplacements = EmptyMap
  /\ rPos = 0
  /\ rMatched = {}
  /\ rResult = <<>>
  /\ rPc = "idle"

\* one turn of the while loop of replaceWithMap
ReplaceMatch ==
  LET match == Match(rInput, rPos)
      known == match.name \in DOMAIN rReplacements
  IN /\ rPc = "call"
     /\ match.found
     /\ IF ~known /\ ~NDEBUG
          THEN /\ rPc' = "aborted"
               /\ UNCHANGED <<rPos, rMatched, rResult>>
          ELSE /\ rResult' = rResult \o SubSeq(rInput, rPos, match.first - 1)
                              \o (IF known THEN rReplacements[match.name]
                                           ELSE SubSeq(rInput, match.first, match.last))
               /\ rMatched' = rMatched \cup {match.name}
               /\ rPos' = match.last + 1
               /\ UNCHANGED rPc
     /\ UNCHANGED <<rInput, rReplacements>>

\* no match at all, or the last match was passed: the asserts on the map,
\* and the return
ReplaceReturn ==
  /\ rPc = "call"
  /\ ~Match(rInput, rPos).found
  /\ IF ~NDEBUG /\ DOMAIN rReplacements \ rMatched # {}
       THEN rPc' = "aborted" /\ UNCHANGED rResult
       ELSE /\ rPc' = "returned"
            /\ rResult' = rResult \o SubSeq(rInput, rPos, Len(rInput))
  /\ UNCHANGED <<rInput, rReplacements, rPos, rMatched>>

(***************************************************************************)
(* The platforms of the extensions.  The registry has one type and one     *)
(* command; every extension names its platform ("" for none) and requires  *)
(* the type, the command, or both.                                         *)
(***************************************************************************)
PlatformNames == { "", "win32", "xlib" }

PlatExtensions == { "VK_a", "VK_b", "VK_c" }

\* the <require> children of an extension
PlatRequires ==
  { << Child("type", "VkT") >>, << Child("command", "vkC") >>,
    << Child("type", "VkT"), Child("command", "vkC") >>,
    << Child("command", "vkC"), Child("type", "VkT") >> }

\* platforms.insert( extensionIt->second.platform ) for every extension
getPlatforms(extensions, m_ext) == { m_ext[e] : e \in extensions }

\* readExtensionRequireType and readExtensionRequireCommand, with the
\* extensions they record; r holds m_extensions, m_types, m_commands and the
\* message of the first failed check
readExtensionRequireTypePlatforms(r, name, extension) ==
  LET next == [r EXCEPT !.types[name] = @ \cup {extension}]
  IN IF Cardinality(getPlatforms(next.types[name], next.extensions)) = 1
       THEN next
       ELSE [next EXCEPT !.error = "type is protected by more than one platform"]

readExtensionRequireCommandPlatforms(r, name, extension) ==
  [r EXCEPT !.commands[name] = @ \cup {extension}]

RECURSIVE readExtensionRequire(_, _, _, _)
readExtensionRequire(r, extension, children, i) ==
  IF r.error # "" \/ i > Len(children) THEN r
  ELSE readExtensionRequire(
         IF children[i].tag = "type"
           THEN readExtensionRequireTypePlatforms(r, children[i].name, extension)
           ELSE readExtensionRequireCommandPlatforms(r, children[i].name, extension),
         extension, children, i + 1)

PlatIdle ==
  /\ xExtensions = EmptyMap
  /\ xTypes = EmptyMap
  /\ xCommands = EmptyMap
  /\ xProtected = EmptyMap
  /\ xPc = "idle"

\* readExtension on an extension that is not disabled
ReadExtensionPlatform(name, platform, children) ==
  LET r == readExtensionRequire(
             [extensions |-> Put(xExtensions, name, platform),
              types |-> xTypes, commands |-> xCommands, error |-> ""],
             name, children, 1)
  IN /\ xPc = "read"
     /\ name \notin DOMAIN xExtensions
     /\ xExtensions' = r.extensions
     /\ xTypes' = r.types
     /\ xCommands' = r.commands
     /\ xPc' = IF r.error # "" THEN "failed" ELSE "read"
     /\ UNCHANGED xProtected

\* the end of the registry: the constructor returns and main emits
EndOfRegistry ==
  /\ xPc = "read"
  /\ xPc' = "emit"
  /\ UNCHANGED <<xExtensions, xTypes, xCommands, xProtected>>

\* generateProtection( feature, extensions ) for an entity without feature.
\* Without the assert, *getPlatforms( extensions ).begin() is the platform.
generateProtection(entity) ==
  LET extensions == IF entity \in DOMAIN xTypes THEN xTypes[entity] ELSE xCommands[entity]
      platforms  == getPlatforms(extensions, xExtensions)
  IN /\ xPc = "emit"
     /\ entity \in (DOMAIN xTypes \cup DOMAIN xCommands) \ DOMAIN xProtected
     /\ IF extensions # {} /\ Cardinality(platforms) # 1 /\ ~NDEBUG
          THEN xPc' = "aborted" /\ UNCHANGED xProtected
          ELSE /\ xProtected' =
                    Put(xProtected, entity,
                        IF extensions = {} THEN ""
                        ELSE CHOOSE q \in platforms :
                               \A o \in platforms : Rank(q) <= Rank(o))
               /\ UNCHANGED xPc
     /\ UNCHANGED <<xExtensions, xTypes, xCommands>>

(***************************************************************************)
(* Specifications.  Spec is a run of the generator on a document; SpecSel  *)
(* is the overload selector on one command; SpecWrapper is one call of an  *)
(* emitted size-then-fill wrapper.                                         *)
(***************************************************************************)
GenIdle(phase) ==
  /\ pc = phase
  /\ doc = <<>>
  /\ m_types = EmptyRegistry.m_types
  /\ m_structures = EmptyRegistry.m_structures
  /\ m_handles = EmptyRegistry.m_handles
  /\ m_commands = EmptyRegistry.m_commands
  /\ m_extensions = EmptyRegistry.m_extensions
  /\ m_extendedStructs = EmptyRegistry.m_extendedStructs
  /\ m_listedTypes = {}
  /\ m_listingTypes = {}
  /\ stack = <<>>
  /\ toVisit = {}
  /\ emitted = <<>>
  /\ classCommands = EmptyMap
  /\ logged = {}

\* the machines that have a specification of their own, before they start
MoreIdle ==
  /\ EnumIdle
  /\ ChkIdle
  /\ AttrIdle
  /\ MainIdle
  /\ SubstIdle
  /\ PlatIdle

Init ==
  /\ NDEBUG \in BOOLEAN
  /\ GenIdle("read")
  /\ SelIdle
  /\ WIdle
  /\ MoreIdle

Next ==
  /\ \/ \E e \in Handles : ReadHandle(e)
     \/ \E e \in Structs : ReadStruct(e)
     \/ \E e \in Commands : ReadCommand(e)
     \/ \E e \in CommandAliases : ReadCommandAlias(e)
     \/ \E e \in Extensions : ReadExtension(e)
     \/ CheckCorrectness
     \/ AppendStructs
     \/ AppendHandles
     \/ \E ub \in {"crash", "goOn"} : AppendType(ub)
     \/ FinishStruct
     \/ FinishHandle
  /\ UNCHANGED <<NDEBUG, selVars, wVars, moreVars>>

Spec == Init /\ [][Next]_vars

SelInit ==
  /\ NDEBUG \in BOOLEAN
  /\ GenIdle("idle")
  /\ SelIdle
  /\ WIdle
  /\ MoreIdle

SelNext ==
  /\ \/ \E p \in ParamPool : AddParam(p)
     \/ \E name \in SelNames, kind \in ReturnKinds : Select(name, kind)
  /\ UNCHANGED <<NDEBUG, wVars, genVars, moreVars>>

SpecSel == SelInit /\ [][SelNext]_vars

SkipNext ==
  /\ \/ \E p \in ParamPool : AddParam(p)
     \/ \E withVectors \in BOOLEAN, returns \in SUBSET (1..MaxParams),
           singular \in BOOLEAN :
          DetermineSkippedParams(withVectors, returns, singular)
  /\ UNCHANGED <<NDEBUG, wVars, genVars, moreVars>>

SpecSkip == SelInit /\ [][SkipNext]_vars

EnumInit ==
  /\ NDEBUG \in BOOLEAN
  /\ GenIdle("idle")
  /\ SelIdle
  /\ WIdle
  /\ PlatIdle
  /\ SubstIdle
  /\ MainIdle
  /\ ChkIdle
  /\ AttrIdle
  /\ eValues = <<>>
  /\ eAliases = EmptyMap
  /\ eEmitted = <<>>
  /\ ePc = "read"

EnumNext ==
  /\ \/ \E n \in Range(EnumNames) : addEnumValue(n)
     \/ \E n, a \in Range(EnumNames) : addEnumAlias(n, a)
     \/ appendEnum
  /\ UNCHANGED <<NDEBUG, selVars, wVars, genVars, chkVars, attrVars, mainVars, substVars,
                 platVars>>

SpecEnum == EnumInit /\ [][EnumNext]_vars

ChkInit ==
  /\ NDEBUG \in BOOLEAN
  /\ GenIdle("idle")
  /\ SelIdle
  /\ WIdle
  /\ PlatIdle
  /\ SubstIdle
  /\ MainIdle
  /\ EnumIdle
  /\ AttrIdle
  /\ cEnum \in SUBSET STypeNames
  /\ cStructs \in [ChkStructNames -> STypeMembers]
  /\ cPc = "unchecked"

ChkNext ==
  /\ CheckStructureTypes
  /\ UNCHANGED <<NDEBUG, selVars, wVars, genVars, enumVars, attrVars, mainVars, substVars,
                 platVars>>

SpecCheck == ChkInit /\ [][ChkNext]_vars

AttrInit ==
  /\ NDEBUG \in BOOLEAN
  /\ GenIdle("idle")
  /\ SelIdle
  /\ WIdle
  /\ PlatIdle
  /\ SubstIdle
  /\ MainIdle
  /\ EnumIdle
  /\ ChkIdle
  /\ aAttributes \in AttributeMaps
  /\ aWarnings = {}
  /\ aPc = "unchecked"

AttrNext ==
  /\ CheckAttributes
  /\ UNCHANGED <<NDEBUG, selVars, wVars, genVars, enumVars, chkVars, mainVars, substVars,
                 platVars>>

SpecAttr == AttrInit /\ [][AttrNext]_vars

MainInit ==
  /\ NDEBUG \in BOOLEAN
  /\ GenIdle("idle")
  /\ SelIdle
  /\ WIdle
  /\ PlatIdle
  /\ SubstIdle
  /\ EnumIdle
  /\ ChkIdle
  /\ AttrIdle
  /\ CLANG_FORMAT \in BOOLEAN
  /\ mPc = "start"
  /\ mFilename = ""
  /\ mExit = ""
  /\ mErrors = {}
  /\ mFile \in {"absent", "old"}

MainNext ==
  /\ \/ \E argc \in {1, 2} : ChooseFile(argc)
     \/ \E error \in {"XML_SUCCESS", "XML_ERROR_FILE_NOT_FOUND"} : LoadFile(error)
     \/ \E outcome \in {"ok", "threw", "abort", "crash"} : Construct(outcome)
     \/ \E outcome \in {"ok", "threw", "abort", "crash"} : AppendAll(outcome)
     \/ \E fail \in BOOLEAN : WriteFile(fail)
     \/ \E ret \in {0, 1} : Format(ret)
  /\ UNCHANGED <<NDEBUG, selVars, wVars, genVars, enumVars, chkVars, attrVars, substVars,
                 platVars>>

SpecMain == MainInit /\ [][MainNext]_vars

SubstInit ==
  /\ NDEBUG \in BOOLEAN
  /\ GenIdle("idle")
  /\ SelIdle
  /\ WIdle
  /\ PlatIdle
  /\ EnumIdle
  /\ ChkIdle
  /\ AttrIdle
  /\ MainIdle
  /\ \E site \in SubstSites, definition \in BOOLEAN,
        withAllocator \in BOOLEAN, handle \in {"", "VkDev"} :
       /\ rInput = functionTemplate(site, definition)
       /\ rReplacements = [ key \in replacementKeys(site, definition) |->
                              replacementValue(key, withAllocator, handle) ]
  /\ rPos = 1
  /\ rMatched = {}
  /\ rResult = <<>>
  /\ rPc = "call"

SubstNext ==
  /\ \/ ReplaceMatch
     \/ ReplaceReturn
  /\ UNCHANGED <<NDEBUG, selVars, wVars, genVars, enumVars, chkVars, attrVars,
                 mainVars,
                 platVars>>

SpecSubst == SubstInit /\ [][SubstNext]_vars

PlatInit ==
  /\ NDEBUG \in BOOLEAN
  /\ GenIdle("idle")
  /\ SelIdle
  /\ WIdle
  /\ EnumIdle
  /\ ChkIdle
  /\ AttrIdle
  /\ MainIdle
  /\ SubstIdle
  /\ xExtensions = EmptyMap
  /\ xTypes = [t \in {"VkT"} |-> {}]
  /\ xCommands = [c \in {"vkC"} |-> {}]
  /\ xProtected = EmptyMap
  /\ xPc = "read"

PlatNext ==
  /\ \/ \E name \in PlatExtensions, platform \in PlatformNames,
           children \in PlatRequires :
          ReadExtensionPlatform(name, platform, children)
     \/ EndOfRegistry
     \/ \E entity \in {"VkT", "vkC"} : generateProtection(entity)
  /\ UNCHANGED <<NDEBUG, selVars, wVars, genVars, enumVars, chkVars, attrVars,
                 mainVars, substVars>>

SpecPlat == PlatInit /\ [][PlatNext]_vars

WEmitters == { "appendCommandVector", "appendCommandVectorDeprecated" }

WEntries == { "commandEnhanced", "commandEnhancedDeprecated" }

WNext ==
  /\ \/ \E emitter \in WEmitters, entry \in WEntries, kind \in ReturnKinds :
          /\ kind[1] # "uint32_t"
          /\ emitter = "appendCommandVector" => entry = "commandEnhanced"
          /\ WEmit(emitter, entry, kind[1], kind[2])
     \/ \E r \in {"VK_SUCCESS", "VK_INCOMPLETE", "VK_ERROR", "void"}, n \in 0..MaxCount :
          WQuery(r, n)
     \/ \E r \in {"VK_SUCCESS", "VK_INCOMPLETE", "VK_ERROR", "void"}, n \in 0..(MaxCount + 1) :
          WFill(r, n)
     \/ WLoop
     \/ WTrim
     \/ WReturn
  /\ UNCHANGED <<NDEBUG, selVars, genVars, moreVars>>

SpecWrapper == SelInit /\ [][WNext]_vars

(***************************************************************************)
(* Properties of main (SpecMain).                                          *)
(***************************************************************************)
\* C19: the process exits with code 0 only when loading, ingestion,
\* validation, emission, writing and formatting all succeeded, and with
\* code -1 whenever one of them failed: an unreadable input, an unwritable
\* output file and a non-zero status of the formatter included.
C19_ExitCodeTellsSuccess ==
  mPc = "exited" =>
    /\ mExit = "0" => mErrors = {}
    /\ mErrors # {} => mExit = "-1"

(***************************************************************************)
(* Properties of the overload selector (SpecSel).                          *)
(***************************************************************************)
\* C1: a command that matches no shape is only reported ("Never encountered a
\* function like ..."), nothing is appended for it, and the run is not left by
\* an exception, whichever branch of the selection the command ends in.
C1_UnmatchedShapeNeverAborts ==
  selPc = "selected" /\ ~selOutcome.appended
    => selOutcome.printed /\ ~selOutcome.threw

\* The command the selector was given, and its classification.
SelCmd  == SelCommand(selParams, selReturnType, selCodes)
SelVpi  == determineVectorParamIndicesNew(selParams)
SelNcp  == determineNonConstPointerParamIndices(selParams)
SelAnchor(i) ==
  isStructureChainAnchor(SelRegistry.m_structures, SelRegistry.m_extendedStructs,
                         selParams[i].type.type)

\* a command with "fancy input": a vector parameter or a const pointer to
\* something other than void
FancyInput ==
  \/ DOMAIN SelVpi # {}
  \/ \E i \in DOMAIN selParams :
       /\ isConstPointer(selParams[i].type)
       /\ selParams[i].type.type # "void"

\* C11: a command without return parameter that has a vector parameter or a
\* non-void const-pointer parameter gets both overloads, the standard and the
\* enhanced one, appended.
C11_FancyInputEmitsStandardAndEnhanced ==
  selPc = "selected" /\ Len(SelNcp) = 0 /\ FancyInput
    => /\ selOutcome.emitter = "appendCommandStandardAndEnhanced"
       /\ selOutcome.appended

\* two return parameters, the second no structure-chain anchor; exactly one
\* of the two is a vector and its size is the other one
EnumerateShape ==
  /\ Len(SelNcp) = 2
  /\ ~SelAnchor(SelNcp[2])
  /\ \E v, c \in Range(SelNcp) :
       /\ v # c
       /\ v \in DOMAIN SelVpi /\ c \notin DOMAIN SelVpi
       /\ SelVpi[v] = c

LeftLoop == wPc \in {"trim", "return", "returned", "threw"}

\* C4: the wrapper of a command returning VkResult starts with a call with a
\* null data pointer; every call with the data pointer directly follows a
\* successful size query and offers exactly the count that query reported;
\* a successful query of a count other than zero is followed by such a call;
\* after a call that returned VK_INCOMPLETE the sequence starts again with a
\* size query; and the loop is left only after a call that did not return
\* VK_INCOMPLETE.
C4_RetriesWhileIncomplete ==
  IsResultTemplate(wTemplate) =>
    /\ wCalls # <<>> => wCalls[1].kind = "query"
    /\ \A i \in DOMAIN wCalls :
         wCalls[i].kind = "fill" =>
           /\ i > 1
           /\ wCalls[i-1].kind = "query"
           /\ wCalls[i-1].result = "VK_SUCCESS"
           /\ wCalls[i].room = wCalls[i-1].count
    /\ \A i \in 1..(Len(wCalls) - 1) :
         /\ ( /\ wCalls[i].kind = "query"
              /\ wCalls[i].result = "VK_SUCCESS"
              /\ wCalls[i].count # 0 ) => wCalls[i+1].kind = "fill"
         /\ wCalls[i].result = "VK_INCOMPLETE" => wCalls[i+1].kind = "query"
    /\ LeftLoop => wCalls # <<>> /\ wCalls[Len(wCalls)].result # "VK_INCOMPLETE"

\* a wrapper returned after it had to start again once
C4_Witness ==
  /\ wPc = "returned"
  /\ IsResultTemplate(wTemplate)
  /\ \E i \in DOMAIN wCalls : wCalls[i].kind = "fill" /\ wCalls[i].result = "VK_INCOMPLETE"

\* C5: when the wrapper of a command returning VkResult returns successfully,
\* the vector it returns is as long as the number of elements the last call
\* wrote, whatever success codes the command declares.
C5_ReturnedLengthIsWrittenCount ==
  wPc = "returned" /\ IsResultTemplate(wTemplate) => wSize = wWritten

\* C6: the wrapper of a void command issues one size query and one fill call
\* that offers the reported count, and returns a vector as long as the number
\* of elements the fill call wrote.
C6_VoidFillsOnceAndTrims ==
  wPc = "returned" /\ ~IsResultTemplate(wTemplate) =>
    /\ Len(wCalls) = 2
    /\ wCalls[1].kind = "query"
    /\ wCalls[2].kind = "fill"
    /\ wCalls[2].room = wCalls[1].count
    /\ wSize = wWritten

(***************************************************************************)
(* Properties of a run of the generator (Spec).                            *)
(***************************************************************************)
\* the struct and handle types X refers to: the types of the members of a
\* struct and its subStruct, the types of the parameters of the commands of a
\* handle
References(x) ==
  IF x \in DOMAIN m_structures
    THEN { m_structures[x].members[i].type.type : i \in DOMAIN m_structures[x].members }
           \cup ({ m_structures[x].subStruct } \ {""})
  ELSE IF x \in DOMAIN m_handles
    THEN UNION { { m_commands[c].params[i].type.type : i \in DOMAIN m_commands[c].params }
                 : c \in m_handles[x].commands \cap DOMAIN m_commands }
  ELSE {}

\* the struct or handle of the registry a name stands for, "none" when it
\* stands for neither
Declared(t) ==
  IF FindStruct(m_structures, t) # "none" THEN FindStruct(m_structures, t)
  ELSE IF t # "" THEN FindHandle(m_handles, t)
  ELSE "none"

Types == DOMAIN m_structures \cup DOMAIN m_handles

DependsOn(x) == { Declared(t) : t \in References(x) } \ {x, "none"}

RECURSIVE Closure(_, _)
Closure(S, k) ==
  IF k = 0 THEN S
  ELSE Closure(S \cup UNION { DependsOn(x) : x \in S }, k - 1)

\* no type reaches itself through other types, and every name that the type
\* table holds as a struct or handle stands for one
OnlySelfReferences ==
  /\ \A x \in Types : x \notin Closure(DependsOn(x), Cardinality(Types))
  /\ \A x \in Types : \A t \in References(x) :
       t \in DOMAIN m_types /\ m_types[t] \in {"Struct", "Union", "Handle"}
         => Declared(t) # "none"

HasSelfReference(x) ==
  x \in DOMAIN m_structures /\ x \in References(x)

\* C2: a struct with a member that points to its own type is appended exactly
\* once; the self-reference is never walked, so it causes neither a second
\* declaration nor a recursion without end (each type is on the stack of
\* calls at most once, and a walk whose only cycles are self-references
\* neither aborts nor crashes), and it does not ask for the struct itself to
\* be appended first.
C2_SelfReferenceEmittedOnce ==
  /\ \A i, j \in DOMAIN emitted : emitted[i] = emitted[j] => i = j
  /\ \A i, j \in DOMAIN stack : stack[i].name = stack[j].name => i = j
  /\ \A i \in DOMAIN stack : \A k \in DOMAIN stack[i].todo :
       HasSelfReference(stack[i].name) => stack[i].todo[k].name # stack[i].name
  /\ OnlySelfReferences => pc \notin {"aborted", "crashed"}
  /\ pc = "done" => \A x \in DOMAIN m_structures : x \in Range(emitted)

C2_Witness ==
  /\ pc = "done"
  /\ HasSelfReference("VkA")
  /\ "VkA" \in Range(emitted)

\* C3: in the output every declaration of a struct or handle comes after the
\* declarations of the structs and handles that its members, or the
\* parameters of its commands, refer to, the type itself excepted.
C3_DependenciesFirst ==
  \A i \in DOMAIN emitted :
    \A t \in References(emitted[i]) \ {emitted[i]} :
      Declared(t) \notin {"none", emitted[i]}
        => \E j \in 1..(i-1) : emitted[j] = Declared(t)

C3_Witness ==
  /\ pc = "done"
  /\ \E i, j \in DOMAIN emitted :
       /\ emitted[i] = "VkA" /\ "VkB" \in References("VkA")
       /\ emitted[j] = "VkDev" /\ "VkB" \in References("VkDev")

\* the positions of the document that hold a disabled extension
DisabledAt(d) ==
  { i \in DOMAIN d : d[i].kind = "extension" /\ d[i].supported = "disabled" }

\* the names of the children of the extension at position i that have the tag
Named(d, i, tag) ==
  { d[i].children[k].name : k \in { n \in DOMAIN d[i].children : d[i].children[n].tag = tag } }

\* positions at which the document declares the name as an element of the kind
DeclaredAt(d, kind, name) ==
  { j \in DOMAIN d : d[j].kind = kind /\ d[j].name = name }

\* the constructor returned: the document was read and checkCorrectness passed
Validated == pc \in {"structs", "handles", "done", "aborted", "crashed", "threw"}

\* C7: after the ingestion of a registry with a disabled extension, no type
\* and no command of that extension is left in the type table, in the map of
\* its category, in the command list or in the command set of a handle.  The
\* formula states it for the cases in which the extension could remove them:
\* the types and commands declared before the extension.
C7_DisabledLeavesNothing ==
  Validated =>
    \A i \in DisabledAt(doc) :
      /\ \A t \in Named(doc, i, "type") :
           (\E j \in DeclaredAt(doc, "struct", t) : j < i)
             => t \notin DOMAIN m_types /\ t \notin DOMAIN m_structures
      /\ \A c \in Named(doc, i, "command") :
           (\E j \in DeclaredAt(doc, "command", c) : j < i)
             => /\ c \notin DOMAIN m_commands
                /\ \A h \in DOMAIN m_handles : c \notin m_handles[h].commands

\* the sections of a document are contiguous
ContiguousSections(d) ==
  \A a, b, c \in DOMAIN d :
    a < b /\ b < c /\ d[a].section = d[c].section => d[b].section = d[a].section

\* the documents that differ from d in the position of a disabled extension
Moves(d) ==
  { m \in { [k \in DOMAIN d |->
               IF k = j THEN d[i]
               ELSE IF k < j THEN (IF k < i THEN d[k] ELSE d[k+1])
               ELSE (IF k <= i THEN d[k-1] ELSE d[k])]
            : i \in DisabledAt(d), j \in DOMAIN d } :
      ContiguousSections(m) }

\* the same model, or the same failure
SameResult(a, b) ==
  IF a.error # "" \/ b.error # "" THEN a.error = b.error ELSE a = b

\* C8: wherever the disabled extension stands in the document, relative to the
\* declarations and to the other extensions, ingestion ends with the same
\* model or with the same failure.
C8_DisabledPositionIrrelevant ==
  pc = "read" => \A m \in Moves(doc) : SameResult(Ingest(m), Ingest(doc))

\* C8, as the code has it: the document is read in one pass.  A disabled
\* extension removes the structs and commands that were declared before it
\* and no others, so that one of them is in the model afterwards exactly when
\* its declaration follows the extension; and reading fails when an enabled
\* extension requires a command that a disabled extension before it removed.
C8_DisabledRemovesWhatWasReadBefore ==
  pc \notin {"failed", "readAborted", "readCrashed"} =>
    \A i \in DisabledAt(doc) :
      /\ \A c \in Named(doc, i, "command") :
           c \in DOMAIN m_commands <=> \E j \in DeclaredAt(doc, "command", c) : j > i
      /\ \A t \in Named(doc, i, "type") :
           t \in DOMAIN m_structures <=> \E j \in DeclaredAt(doc, "struct", t) : j > i
      /\ \A j \in DOMAIN doc :
           /\ j > i
           /\ doc[j].kind = "extension"
           /\ doc[j].supported # "disabled"
           => \A c \in Named(doc, j, "command") \cap Named(doc, i, "command") :
                \E k \in DeclaredAt(doc, "command", c) : k > i

\* a command that is declared after the disabled extension naming it, and is
\* in the model when the run ends
C8_Witness ==
  /\ pc = "done"
  /\ \E i \in DisabledAt(doc) :
       \E c \in Named(doc, i, "command") : c \in DOMAIN m_commands

\* a name of the type table stands for an entity of its category
Resolves(t) ==
  /\ t \in DOMAIN m_types
  /\ m_types[t] \in {"Struct", "Union"} => FindStruct(m_structures, t) # "none"
  /\ m_types[t] = "Handle" => FindHandle(m_handles, t) # "none"

\* C9: once checkCorrectness has passed, the type of every struct member, the
\* type of every parameter and the return type of every command, and every
\* struct named in structextends stand for an entity that is in the model
\* under its category, also when an extension has been disabled.
C9_ReferencesResolve ==
  Validated =>
    /\ \A x \in DOMAIN m_structures :
         /\ \A i \in DOMAIN m_structures[x].members :
              Resolves(m_structures[x].members[i].type.type)
         /\ \A t \in m_structures[x].structExtends : Resolves(t)
    /\ \A c \in DOMAIN m_commands :
         /\ \A i \in DOMAIN m_commands[c].params : Resolves(m_commands[c].params[i].type.type)
         /\ Resolves(m_commands[c].returnType)

\* the commands of the model whose first parameter has the type, with their
\* aliases
WithAliases(cmds) == cmds \cup UNION { m_commands[c].aliasData : c \in cmds }

FirstParamCommands(h) ==
  { c \in DOMAIN m_commands : m_commands[c].params[1].type.type = h }

ZeroParamCommands ==
  { doc[i].name : i \in { j \in DOMAIN doc :
                            doc[j].kind = "command" /\ doc[j].params = <<>> } }

\* C13: a registry with a command that has no parameters does not crash the
\* generator, and no overload of that command is emitted.
C13_ZeroParamCommandDoesNotCrash ==
  ZeroParamCommands # {}
    => /\ pc \notin {"readAborted", "readCrashed"}
       /\ \A h \in DOMAIN classCommands : classCommands[h] \cap ZeroParamCommands = {}

(***************************************************************************)
(* Properties of one enum (SpecEnum).                                      *)
(***************************************************************************)
IsEnumValue(name) == \E i \in DOMAIN eValues : eValues[i].vulkanValue = name

AliasOfValueCppName(a) ==
  a \in DOMAIN eAliases /\ \E i \in DOMAIN eValues : eValues[i].vkValue = eAliases[a].second

RECURSIVE EndsAtValue(_, _)
EndsAtValue(n, k) ==
  \/ IsEnumValue(n)
  \/ /\ k > 0
     /\ n \in DOMAIN eAliases
     /\ EndsAtValue(eAliases[n].first, k - 1)

\* the alias entries reachable from alias a in k steps or fewer, a excluded
\* unless a path leads back to it
RECURSIVE AliasesAfter(_, _)
AliasesAfter(a, k) ==
  IF k = 0 \/ a \notin DOMAIN eAliases THEN {}
  ELSE LET t == eAliases[a].first
       IN IF t \in DOMAIN eAliases THEN {t} \cup AliasesAfter(t, k - 1) ELSE {}

STypeValuesOf(t) == cStructs[t].values

\* C15: in a registry that passed validation every value of VkStructureType
\* except the reserved loader values is the sType value of exactly one struct,
\* and every sType value of a struct is a value of the enum that is not
\* reserved.
C15_STypeValuesUsedExactlyOnce ==
  cPc = "passed" =>
    /\ \A v \in cEnum \ ReservedSTypes :
         Cardinality({ t \in DOMAIN cStructs : v \in STypeValuesOf(t) }) = 1
    /\ \A t \in DOMAIN cStructs : STypeValuesOf(t) \subseteq (cEnum \ ReservedSTypes)

(***************************************************************************)
(* The len attribute of struct members (Spec).                             *)
(***************************************************************************)
\* the positions of the members that the len of member i names
LenTargets(members, i) ==
  IF "len" \in DOMAIN members[i]
    THEN { j \in DOMAIN members : members[j].name = members[i].len[1] }
    ELSE {}

\* C16: in every struct of the registry a member whose len names a member of
\* the struct comes after that member; and a struct element in which a len
\* names the member itself or a later member is rejected: reading fails at it.
C16_LenNamesEarlierMember ==
  /\ \A t \in DOMAIN m_structures :
       \A i \in DOMAIN m_structures[t].members :
         \A j \in LenTargets(m_structures[t].members, i) : j < i
  /\ \A k \in DOMAIN doc :
       /\ doc[k].kind = "struct"
       /\ \E i \in DOMAIN doc[k].members :
            \E j \in LenTargets(doc[k].members, i) : j >= i
       => k = Len(doc) /\ pc = "failed"

\* a struct with a counted array was accepted
C16_Witness ==
  \E t \in DOMAIN m_structures :
    \E i \in DOMAIN m_structures[t].members :
      LenTargets(m_structures[t].members, i) # {}

(***************************************************************************)
(* Properties of checkAttributes (SpecAttr).                               *)
(***************************************************************************)
\* the attributes of the element that have a set of declared values and a
\* value, or a part of a value, outside it
OutsideDeclared ==
  LET declared == [ a \in DOMAIN RequiredAttributes \cup DOMAIN OptionalAttributes |->
                      IF a \in DOMAIN RequiredAttributes
                        THEN RequiredAttributes[a] ELSE OptionalAttributes[a] ]
  IN { a \in DOMAIN aAttributes \cap DOMAIN declared :
         /\ declared[a] # {}
         /\ \E k \in DOMAIN aAttributes[a] : aAttributes[a][k] \notin declared[a] }

\* C18: when no required attribute is missing, an attribute value outside the
\* values declared for the attribute only produces a warning: checkAttributes
\* returns, whether the attribute is required or optional.
C18_ValueOutsideDeclaredOnlyWarns ==
  /\ aPc \in {"returned", "threw"}
  /\ DOMAIN RequiredAttributes \subseteq DOMAIN aAttributes
  /\ OutsideDeclared # {}
  => aPc = "returned" /\ OutsideDeclared \subseteq aWarnings

(***************************************************************************)
(* The order of the output (Spec).                                         *)
(***************************************************************************)
\* both structs (or unions), or both handles
SameCategory(x, y) ==
  \/ x \in DOMAIN m_structures /\ y \in DOMAIN m_structures
  \/ x \in DOMAIN m_handles /\ y \in DOMAIN m_handles

\* neither type reaches the other through the types it refers to
Independent(x, y) ==
  /\ x # y
  /\ x \notin Closure({y}, Cardinality(Types))
  /\ y \notin Closure({x}, Cardinality(Types))

\* no other type reaches x through the types it refers to
Unrequired(x) ==
  \A z \in Types \ {x} : x \notin Closure({z}, Cardinality(Types))

EmittedAt(x) == CHOOSE i \in DOMAIN emitted : emitted[i] = x

\* x is declared in the document, and before the first declaration of y
DeclaredBefore(x, y) ==
  \E i \in DOMAIN doc :
    /\ doc[i].kind \in {"struct", "handle"} /\ doc[i].name = x
    /\ \E j \in DOMAIN doc : doc[j].kind \in {"struct", "handle"} /\ doc[j].name = y
    /\ \A j \in DOMAIN doc :
         doc[j].kind \in {"struct", "handle"} /\ doc[j].name = y => i < j

EntryTarget ==
  LET item     == Head(stack[Len(stack)].todo)
      typeName == item.name
  IN IF item.tag = "sub"
       THEN IF typeName \in DOMAIN m_structures /\ typeName \notin m_listedTypes
              THEN typeName ELSE "none"
     ELSE IF typeName \in m_listedTypes \/ typeName \notin DOMAIN m_types
       THEN "none"
     ELSE IF m_types[typeName] \in {"Struct", "Union", "Handle"}
       THEN LET found == IF m_types[typeName] = "Handle"
                           THEN FindHandle(m_handles, typeName)
                           ELSE FindStruct(m_structures, typeName)
            IN IF found # typeName /\ found \in m_listedTypes THEN "none" ELSE found
     ELSE "none"

\* C21: after validation, appendStruct and appendHandle are entered only
\* for a type that is neither being listed nor listed: the two asserts at
\* their entry hold, also for structs that refer to each other and for a
\* struct with a member of a handle type whose commands take the struct.
C21_EntryAssertsHold ==
  /\ pc \in {"structs", "handles", "aborted", "crashed"}
  /\ stack # <<>>
  /\ stack[Len(stack)].todo # <<>>
  => /\ EntryTarget \notin m_listingTypes
     /\ EntryTarget \notin m_listedTypes

(***************************************************************************)
(* Properties of replaceWithMap (SpecSubst).                               *)
(***************************************************************************)
\* the names of all the placeholders of the input, from position from on
RECURSIVE PlaceholdersFrom(_, _)
PlaceholdersFrom(input, from) ==
  LET match == Match(input, from)
  IN IF match.found
       THEN {match.name} \cup PlaceholdersFrom(input, match.last + 1)
       ELSE {}

\* C22: for every template and map the emitter passes to replaceWithMap, the
\* placeholders of the template are the keys of the map; no assert of
\* replaceWithMap fails, and the text it returns has no placeholder left.
C22_PlaceholdersAreKeys ==
  /\ rPc # "idle" => PlaceholdersFrom(rInput, 1) = DOMAIN rReplacements
  /\ rPc # "aborted"
  /\ rPc = "returned" => PlaceholdersFrom(rResult, 1) = {}

(***************************************************************************)
(* The asserts of the emitters the selector dispatches to (SpecSel).       *)
(***************************************************************************)
\* C23: a command that the selector gives to the singular, the
\* vector-singular-unique or the vector-unique emitter returns VkResult, as
\* those emitters assert on entry.
C23_ResultOnlyEmittersGetVkResult ==
  /\ selPc \in {"selected", "aborted"}
  /\ selOutcome.emitter \in ResultOnlyEmitters
  => selReturnType = "VkResult" /\ selPc = "selected"

\* C24: a command that the selector gives to the enumerate emitter meets the
\* asserts of the enumerate constructors: returning VkResult, its success
\* codes are VK_SUCCESS, VK_INCOMPLETE; returning void, it has no success
\* codes and its first parameter is its handle.
C24_EnumerateShapeMeetsAsserts ==
  /\ selPc \in {"selected", "aborted"}
  /\ selOutcome.emitter = "appendCommandVector"
  => /\ selPc = "selected"
     /\ selReturnType = "VkResult" => selCodes = SuccessIncomplete
     /\ selReturnType = "void" =>
          selCodes = <<>> /\ selParams[1].type.type = SelCmd.handle

(***************************************************************************)
(* The vector parameters and the skipped parameters (SpecSel).             *)
(***************************************************************************)
\* the parameters before the i-th that its len names / that its len names
\* as the struct of a member path
NamedBefore(i) ==
  { j \in 1..(i - 1) : selParams[i].len = << selParams[j].name >> }

PathBefore(i) ==
  { j \in 1..(i - 1) : Len(selParams[i].len) = 2 /\ selParams[i].len[1] = selParams[j].name }

\* C25 as stated: a vector parameter whose len names an earlier parameter
\* has the index of that parameter as its lengthIndex, and a vector
\* parameter whose len is a member path q->m has the invalid index.
C25_LengthIndexOrSentinel ==
  \A i \in DOMAIN selParams :
    /\ \A j \in NamedBefore(i) : i \in DOMAIN SelVpi /\ SelVpi[i] = j
    /\ Len(selParams[i].len) = 2 =>
         i \in DOMAIN SelVpi /\ SelVpi[i] = INVALID_INDEX

\* C25: a parameter whose len names an earlier parameter has the index of
\* that parameter as its lengthIndex; a parameter whose len is a member path
\* q->m has the index of the parameter q when q is an earlier parameter, and
\* is no vector parameter otherwise; the invalid index is never stored.
C25_LengthIndexIsEarlierParameter ==
  \A i \in DOMAIN selParams :
    /\ \A j \in NamedBefore(i) \cup PathBefore(i) : i \in DOMAIN SelVpi /\ SelVpi[i] = j
    /\ NamedBefore(i) \cup PathBefore(i) = {} => i \notin DOMAIN SelVpi
    /\ i \in DOMAIN SelVpi => SelVpi[i] # INVALID_INDEX

C25_Witness ==
  /\ selPc = "selected"
  /\ \E i \in DOMAIN selParams : PathBefore(i) # {} /\ SelVpi[i] \in PathBefore(i)

\* the handle of the command under construction, "" when it has none
SkipHandle == SelCommand(selParams, "VkResult", <<"VK_SUCCESS">>).handle

C27_OnePlatformPerEntity ==
  xPc \in {"emit", "aborted"} =>
    /\ \A t \in DOMAIN xTypes :
         Cardinality(getPlatforms(xTypes[t], xExtensions)) <= 1
    /\ \A c \in DOMAIN xCommands :
         Cardinality(getPlatforms(xCommands[c], xExtensions)) <= 1
    /\ xPc # "aborted"

(***************************************************************************)
(* The commands of the handles (Spec).                                     *)
(***************************************************************************)
\* C28: whenever an element has been read, every command in the command set
\* of a handle is a key of m_commands, and the handle of that command is
\* this handle, also after a disabled extension has removed commands; the
\* lookup of a command of a handle in appendHandle never ends at end().
C28_HandleCommandsAreLinked ==
  \A h \in DOMAIN m_handles :
    \A c \in m_handles[h].commands :
      c \in DOMAIN m_commands /\ m_commands[c].handle = h

\* a disabled extension has removed a command of a handle that has kept
\* another one, and the handle is being appended
C28_Witness ==
  /\ pc \in {"structs", "handles", "done"}
  /\ \E i \in DisabledAt(doc) :
       \E c \in Named(doc, i, "command") :
         /\ c \notin DOMAIN m_commands
         /\ \E j \in DeclaredAt(doc, "command", c) : j < i
  /\ "VkDev" \in DOMAIN m_handles \cap m_listedTypes
  /\ m_handles["VkDev"].commands # {}


\* C29: from the end of validation to the end of emission no step changes the
\* registry data (types, structures, handles, commands, extensions, the
\* extended structures); of the generator's members only the listing and the
\* listed set change.
C29_EmissionLeavesRegistry ==
  [][Validated => UNCHANGED regVars]_vars

\* the emission has run to its end and has listed a structure and a handle
C29_Witness ==
  /\ pc = "done"
  /\ m_listingTypes = {}
  /\ m_listedTypes \cap DOMAIN m_structures # {}
  /\ m_listedTypes \cap DOMAIN m_handles # {}
  /\ emitted # <<>>


\* C30: determineSubStruct never reads member 0 of a structure that has no
\* members, whatever structures were read before the one it is called for.
C30_NeverReadsMemberOfMemberless ==
  (doc # <<>> /\ pc \in {"read", "failed", "readCrashed"})
    => LET e == doc[Len(doc)]
           before == IF pc = "read" /\ e.kind = "struct"
                       THEN [ m_types |-> m_types,
                              m_structures |-> Erase(m_structures, e.name) ]
                       ELSE [ m_types |-> m_types,
                              m_structures |-> m_structures ]
       IN (e.kind = "struct" /\ ReachesDetermineSubStruct(before, e))
            => ~ReadsMemberOfMemberless(before.m_structures, e.name, e.members)

=============================================================================
